---- MODULE Spec2Model ----
(***************************************************************************)
(* Model of the off-chain quoting and routing core of the whirlpools SDK:   *)
(*   - the add-liquidity quotes of increase-liquidity-quote.ts              *)
(*   - the split router findBestRoutes                                      *)
(*   - the initialize_pool_v2 test suite and the instruction it exercises   *)
(* Fixed-point values are scaled down: the sqrt-price has FracBits          *)
(* fractional bits instead of 64, and a tick multiplies the sqrt-price by   *)
(* 3/2 instead of sqrt(1.0001).  BN values are unbounded integers.          *)
(***************************************************************************)
EXTENDS Integers, Sequences, FiniteSets, TLC

VARIABLES qparam, qop, qres

\* one findBestRoutes call: its arguments, the on-chain state behind the
\* fetcher, where the call stands, and its local variables
VARIABLES rin, world, pc, iteration, quoteMap, quoteUpdates, calls, quoteErrors,
          returned, raised

\* two findBestRoutes calls in progress at once: the objects they share (the
\* pool walks and DEFAULT_ROUTING_OPTIONS), each call's arguments, position and
\* local variables, and the order in which the calls were resumed
VARIABLES heap, invocations, schedule

\* one test case of the initialize_pool_v2 suite: the accounts on the chain,
\* the test case with the step it has reached, and what its transactions
\* returned
VARIABLES chain, tcase, outcome

ivars == <<chain, tcase, outcome>>

\* one call of generatePercentageAmounts: its arguments, the loop index and
\* the two arrays it fills
VARIABLE gen

qvars == <<qparam, qop, qres>>

pvars == <<heap, invocations, schedule>>

rvars == <<rin, world, pc, iteration, quoteMap, quoteUpdates, calls, quoteErrors,
           returned, raised>>

vars == <<qparam, qop, qres, rin, world, pc, iteration, quoteMap, quoteUpdates, calls,
          quoteErrors, returned, raised, heap, invocations, schedule, chain, tcase,
          outcome, gen>>

(***************************************************************************)
(* Bounds                                                                   *)
(***************************************************************************)
\* fractional bits of the scaled-down sqrt-price (64 in the program)
FracBits == 3
\* ticks lie in -MaxTick .. MaxTick (MAX_TICK_INDEX in the program)
MaxTick == 2
\* largest inputTokenAmount / liquidity given to a quote
MaxAmount == 3

MinTick == -MaxTick

Q64_ONE == 2^FracBits

(***************************************************************************)
(* bn.js arithmetic: div truncates toward zero, mod has the sign of the     *)
(* dividend, shrn shifts the magnitude and keeps the sign.                  *)
(***************************************************************************)
BNAbs(a) == IF a < 0 THEN -a ELSE a

BNMax(a, b) == IF a >= b THEN a ELSE b

BNMin(a, b) == IF a <= b THEN a ELSE b

BNDiv(a, b) ==
    IF (a >= 0) = (b > 0)
    THEN BNAbs(a) \div BNAbs(b)
    ELSE -(BNAbs(a) \div BNAbs(b))

BNMod(a, b) == a - b * BNDiv(a, b)

shrn(a) == BNDiv(a, Q64_ONE)

shln(a) == a * Q64_ONE

\* MathUtil.shiftRightRoundUp
shiftRightRoundUp(n) ==
    IF BNMod(n, Q64_ONE) > 0 THEN shrn(n) + 1 ELSE shrn(n)

\* MathUtil.divRoundUp
divRoundUp(n0, n1) ==
    IF BNMod(n0, n1) # 0 THEN BNDiv(n0, n1) + 1 ELSE BNDiv(n0, n1)

RECURSIVE Pow(_, _)
Pow(b, e) == IF e = 0 THEN 1 ELSE b * Pow(b, e - 1)

(***************************************************************************)
(* PriceMath                                                                *)
(***************************************************************************)
\* PriceMath.tickIndexToSqrtPriceX64: product of powers, inverted for t < 0
tickIndexToSqrtPriceX64(t) ==
    IF t >= 0
    THEN (Q64_ONE * Pow(3, t)) \div Pow(2, t)
    ELSE (Q64_ONE * Pow(2, -t)) \div Pow(3, -t)

MIN_SQRT_PRICE == tickIndexToSqrtPriceX64(MinTick)

MAX_SQRT_PRICE == tickIndexToSqrtPriceX64(MaxTick)

\* PriceMath.sqrtPriceX64ToTickIndex: the greatest t with sqrtP(t) <= p
sqrtPriceX64ToTickIndex(p) ==
    CHOOSE t \in MinTick..MaxTick :
        /\ tickIndexToSqrtPriceX64(t) <= p
        /\ \A u \in MinTick..MaxTick : tickIndexToSqrtPriceX64(u) <= p => u <= t

\* TickUtil.checkTickInBounds
checkTickInBounds(t) == t >= MinTick /\ t <= MaxTick

\* floor of the square root of num/den
ISqrtFrac(num, den, hi) ==
    CHOOSE r \in 0..hi : r * r * den <= num /\ (r + 1) * (r + 1) * den > num

\* PriceMath.getSlippageBoundForSqrtPrice: the price (not the sqrt-price) is
\* scaled by 1 -/+ s, then the square root is taken; each bound carries the
\* tick index of its own sqrt-price.
getSlippageBoundForSqrtPrice(sqrtPrice, slippage) ==
    LET n == slippage.numerator
        d == slippage.denominator
        lo == BNMin(BNMax(ISqrtFrac(sqrtPrice * sqrtPrice * (d - n), d, sqrtPrice),
                          MIN_SQRT_PRICE), MAX_SQRT_PRICE)
        hi == BNMin(BNMax(ISqrtFrac(sqrtPrice * sqrtPrice * (d + n), d, 2 * sqrtPrice),
                          MIN_SQRT_PRICE), MAX_SQRT_PRICE)
    IN  [lowerBound |-> <<lo, sqrtPriceX64ToTickIndex(lo)>>,
         upperBound |-> <<hi, sqrtPriceX64ToTickIndex(hi)>>]

(***************************************************************************)
(* position-util                                                            *)
(***************************************************************************)
\* adjustForSlippage(n, slippage, adjustUp)
adjustForSlippage(n, slippage, adjustUp) ==
    IF adjustUp
    THEN BNDiv(n * (slippage.denominator + slippage.numerator), slippage.denominator)
    ELSE BNDiv(n * slippage.denominator, slippage.denominator + slippage.numerator)

\* A value, or the error that the computation raised instead
Val(v) == [err |-> "none", v |-> v]

Err(e) == [err |-> e, v |-> 0]

\* getLiquidityFromTokenA: amount * lo * hi / (hi - lo) >> 64
getLiquidityFromTokenA(amount, sqrtPriceLowerX64, sqrtPriceUpperX64, roundUp) ==
    IF sqrtPriceUpperX64 = sqrtPriceLowerX64
    THEN Err("division by zero")
    ELSE LET result == BNDiv(amount * sqrtPriceLowerX64 * sqrtPriceUpperX64,
                             sqrtPriceUpperX64 - sqrtPriceLowerX64)
         IN  Val(IF roundUp THEN shiftRightRoundUp(result) ELSE shrn(result))

\* getLiquidityFromTokenB: (amount << 64) / (hi - lo)
getLiquidityFromTokenB(amount, sqrtPriceLowerX64, sqrtPriceUpperX64, roundUp) ==
    IF sqrtPriceUpperX64 = sqrtPriceLowerX64
    THEN Err("division by zero")
    ELSE LET numerator == shln(amount)
             denominator == sqrtPriceUpperX64 - sqrtPriceLowerX64
         IN  Val(IF roundUp THEN divRoundUp(numerator, denominator)
                 ELSE BNDiv(numerator, denominator))

\* getTokenAFromLiquidity: the two sqrt-prices are ordered first
getTokenAFromLiquidity(liquidity, sqrtPrice0X64, sqrtPrice1X64, roundUp) ==
    LET lower == BNMin(sqrtPrice0X64, sqrtPrice1X64)
        upper == BNMax(sqrtPrice0X64, sqrtPrice1X64)
        numerator == shln(liquidity * (upper - lower))
        denominator == upper * lower
    IN  IF roundUp THEN divRoundUp(numerator, denominator)
        ELSE BNDiv(numerator, denominator)

\* getTokenBFromLiquidity: the two sqrt-prices are ordered first
getTokenBFromLiquidity(liquidity, sqrtPrice0X64, sqrtPrice1X64, roundUp) ==
    LET lower == BNMin(sqrtPrice0X64, sqrtPrice1X64)
        upper == BNMax(sqrtPrice0X64, sqrtPrice1X64)
        result == liquidity * (upper - lower)
    IN  IF roundUp THEN shiftRightRoundUp(result) ELSE shrn(result)

\* PositionUtil.getStrictPositionStatus(sqrtPrice, tickLower, tickUpper)
getStrictPositionStatus(sqrtPrice, tickLowerIndex, tickUpperIndex) ==
    IF sqrtPrice < tickIndexToSqrtPriceX64(tickLowerIndex) THEN "BelowRange"
    ELSE IF sqrtPrice >= tickIndexToSqrtPriceX64(tickUpperIndex) THEN "AboveRange"
    ELSE "InRange"

(***************************************************************************)
(* increase-liquidity-quote.ts                                              *)
(***************************************************************************)
\* An IncreaseLiquidityQuote, or the error raised instead of one
Quote(maxA, maxB, liq, estA, estB) ==
    [err |-> "none", tokenMaxA |-> maxA, tokenMaxB |-> maxB,
     liquidityAmount |-> liq, tokenEstA |-> estA, tokenEstB |-> estB]

QuoteError(e) ==
    [err |-> e, tokenMaxA |-> 0, tokenMaxB |-> 0,
     liquidityAmount |-> 0, tokenEstA |-> 0, tokenEstB |-> 0]

ZeroQuote == Quote(0, 0, 0, 0, 0)

Estimate(e, estA, estB) == [err |-> e, tokenEstA |-> estA, tokenEstB |-> estB]

LiquidityEstimate(e, liq, estA, estB) ==
    [err |-> e, liquidityAmount |-> liq, tokenEstA |-> estA, tokenEstB |-> estB]

\* getLiquidityFromInputToken with the in-range liquidity taken over the whole
\* range instead of from the current sqrt-price to the upper edge
getLiquidityFromInputToken_WholeRange(params) ==
    LET isTokenA == params.tokenMintA = params.inputTokenMint
        sqrtPriceLowerX64 == tickIndexToSqrtPriceX64(params.tickLowerIndex)
        sqrtPriceUpperX64 == tickIndexToSqrtPriceX64(params.tickUpperIndex)
    IN  IF params.inputTokenAmount = 0 THEN Val(0)
        ELSE IF isTokenA
        THEN (IF params.tickCurrentIndex > params.tickUpperIndex THEN Val(0)
              ELSE getLiquidityFromTokenA(params.inputTokenAmount, sqrtPriceLowerX64,
                                          sqrtPriceUpperX64, FALSE))
        ELSE (IF params.tickCurrentIndex < params.tickLowerIndex THEN Val(0)
              ELSE getLiquidityFromTokenB(params.inputTokenAmount, sqrtPriceLowerX64,
                                          sqrtPriceUpperX64, FALSE))

\* getLiquidityFromInputToken with the liquidity rounded up
getLiquidityFromInputToken_RoundUp(params) ==
    LET isTokenA == params.tokenMintA = params.inputTokenMint
        sqrtPriceLowerX64 == tickIndexToSqrtPriceX64(params.tickLowerIndex)
        sqrtPriceUpperX64 == tickIndexToSqrtPriceX64(params.tickUpperIndex)
    IN  IF params.inputTokenAmount = 0 THEN Val(0)
        ELSE IF params.tickCurrentIndex < params.tickLowerIndex
        THEN (IF isTokenA
              THEN getLiquidityFromTokenA(params.inputTokenAmount, sqrtPriceLowerX64,
                                          sqrtPriceUpperX64, TRUE)
              ELSE Val(0))
        ELSE IF params.tickCurrentIndex > params.tickUpperIndex
        THEN (IF isTokenA
              THEN Val(0)
              ELSE getLiquidityFromTokenB(params.inputTokenAmount, sqrtPriceLowerX64,
                                          sqrtPriceUpperX64, TRUE))
        ELSE (IF isTokenA
              THEN getLiquidityFromTokenA(params.inputTokenAmount, params.sqrtPrice,
                                          sqrtPriceUpperX64, TRUE)
              ELSE getLiquidityFromTokenB(params.inputTokenAmount, sqrtPriceLowerX64,
                                          params.sqrtPrice, TRUE))

getLiquidityFromInputToken(params) ==
    LET isTokenA == params.tokenMintA = params.inputTokenMint
        sqrtPriceLowerX64 == tickIndexToSqrtPriceX64(params.tickLowerIndex)
        sqrtPriceUpperX64 == tickIndexToSqrtPriceX64(params.tickUpperIndex)
    IN  IF params.inputTokenAmount = 0 THEN Val(0)
        ELSE IF params.tickCurrentIndex < params.tickLowerIndex
        THEN (IF isTokenA
              THEN getLiquidityFromTokenA(params.inputTokenAmount, sqrtPriceLowerX64,
                                          sqrtPriceUpperX64, FALSE)
              ELSE Val(0))
        ELSE IF params.tickCurrentIndex > params.tickUpperIndex
        THEN (IF isTokenA
              THEN Val(0)
              ELSE getLiquidityFromTokenB(params.inputTokenAmount, sqrtPriceLowerX64,
                                          sqrtPriceUpperX64, FALSE))
        ELSE (IF isTokenA
              THEN getLiquidityFromTokenA(params.inputTokenAmount, params.sqrtPrice,
                                          sqrtPriceUpperX64, FALSE)
              ELSE getLiquidityFromTokenB(params.inputTokenAmount, sqrtPriceLowerX64,
                                          params.sqrtPrice, FALSE))

getTokenEstimatesFromLiquidity(params) ==
    LET liquidity == params.liquidity
        sqrtPrice == params.sqrtPrice
        lowerSqrtPrice == tickIndexToSqrtPriceX64(params.tickLowerIndex)
        upperSqrtPrice == tickIndexToSqrtPriceX64(params.tickUpperIndex)
    IN  IF liquidity = 0 THEN Estimate("liquidity must be greater than 0", 0, 0)
        ELSE IF params.tickCurrentIndex < params.tickLowerIndex
        THEN Estimate("none",
                      getTokenAFromLiquidity(liquidity, sqrtPrice, upperSqrtPrice, TRUE), 0)
        ELSE IF params.tickCurrentIndex < params.tickUpperIndex
        THEN Estimate("none",
                      getTokenAFromLiquidity(liquidity, sqrtPrice, upperSqrtPrice, TRUE),
                      getTokenBFromLiquidity(liquidity, lowerSqrtPrice, sqrtPrice, TRUE))
        ELSE Estimate("none", 0,
                      getTokenBFromLiquidity(liquidity, lowerSqrtPrice, upperSqrtPrice, TRUE))

\* params with the sqrt-price and tick index of one slippage bound
AtBound(params, bound) ==
    [params EXCEPT !.sqrtPrice = bound[1], !.tickCurrentIndex = bound[2]]

\* increaseLiquidityQuoteByLiquidityWithParams with the bounds' sqrt-prices
\* evaluated at the unshifted tickCurrentIndex
increaseLiquidityQuoteByLiquidityWithParams_UnshiftedTick(params) ==
    IF params.liquidity = 0 THEN ZeroQuote
    ELSE LET est == getTokenEstimatesFromLiquidity(params)
             bounds == getSlippageBoundForSqrtPrice(params.sqrtPrice, params.slippage)
             estLower == getTokenEstimatesFromLiquidity(
                             [params EXCEPT !.sqrtPrice = bounds.lowerBound[1]])
             estUpper == getTokenEstimatesFromLiquidity(
                             [params EXCEPT !.sqrtPrice = bounds.upperBound[1]])
         IN  Quote(BNMax(BNMax(est.tokenEstA, estLower.tokenEstA), estUpper.tokenEstA),
                   BNMax(BNMax(est.tokenEstB, estLower.tokenEstB), estUpper.tokenEstB),
                   params.liquidity, est.tokenEstA, est.tokenEstB)

\* increaseLiquidityQuoteByLiquidityWithParams without the early return of
\* lines 180-188
increaseLiquidityQuoteByLiquidityWithParams_NoZeroReturn(params) ==
    LET est == getTokenEstimatesFromLiquidity(params)
        bounds == getSlippageBoundForSqrtPrice(params.sqrtPrice, params.slippage)
        estLower == getTokenEstimatesFromLiquidity(AtBound(params, bounds.lowerBound))
        estUpper == getTokenEstimatesFromLiquidity(AtBound(params, bounds.upperBound))
        tokenMaxA == BNMax(BNMax(est.tokenEstA, estLower.tokenEstA), estUpper.tokenEstA)
        tokenMaxB == BNMax(BNMax(est.tokenEstB, estLower.tokenEstB), estUpper.tokenEstB)
    IN  IF est.err # "none" THEN QuoteError(est.err)
        ELSE IF estLower.err # "none" THEN QuoteError(estLower.err)
        ELSE IF estUpper.err # "none" THEN QuoteError(estUpper.err)
        ELSE Quote(tokenMaxA, tokenMaxB, params.liquidity, est.tokenEstA, est.tokenEstB)

increaseLiquidityQuoteByLiquidityWithParams(params) ==
    IF params.liquidity = 0 THEN ZeroQuote
    ELSE LET est == getTokenEstimatesFromLiquidity(params)
             bounds == getSlippageBoundForSqrtPrice(params.sqrtPrice, params.slippage)
             estLower == getTokenEstimatesFromLiquidity(AtBound(params, bounds.lowerBound))
             estUpper == getTokenEstimatesFromLiquidity(AtBound(params, bounds.upperBound))
             tokenMaxA == BNMax(BNMax(est.tokenEstA, estLower.tokenEstA), estUpper.tokenEstA)
             tokenMaxB == BNMax(BNMax(est.tokenEstB, estLower.tokenEstB), estUpper.tokenEstB)
         IN  IF est.err # "none" THEN QuoteError(est.err)
             ELSE IF estLower.err # "none" THEN QuoteError(estLower.err)
             ELSE IF estUpper.err # "none" THEN QuoteError(estUpper.err)
             ELSE Quote(tokenMaxA, tokenMaxB, params.liquidity, est.tokenEstA, est.tokenEstB)

\* the invariant() checks with tickLowerIndex checked twice and tickUpperIndex
\* not at all
ValidationError_UpperUnchecked(param) ==
    IF ~checkTickInBounds(param.tickLowerIndex) THEN "tickLowerIndex is out of bounds."
    ELSE IF ~checkTickInBounds(param.tickLowerIndex) THEN "tickUpperIndex is out of bounds."
    ELSE IF ~(param.inputTokenMint = param.tokenMintA \/ param.inputTokenMint = param.tokenMintB)
    THEN "input token mint does not match any tokens in the provided pool."
    ELSE "none"

\* the three invariant() checks that open both by-input-token entry points
ValidationError(param) ==
    IF ~checkTickInBounds(param.tickLowerIndex) THEN "tickLowerIndex is out of bounds."
    ELSE IF ~checkTickInBounds(param.tickUpperIndex) THEN "tickUpperIndex is out of bounds."
    ELSE IF ~(param.inputTokenMint = param.tokenMintA \/ param.inputTokenMint = param.tokenMintB)
    THEN "input token mint does not match any tokens in the provided pool."
    ELSE "none"

increaseLiquidityQuoteByInputTokenWithParams_PriceSlippage(param) ==
    IF ValidationError(param) # "none" THEN QuoteError(ValidationError(param))
    ELSE LET liquidity == getLiquidityFromInputToken(param)
         IN  IF liquidity.err # "none" THEN QuoteError(liquidity.err)
             ELSE IF liquidity.v = 0 THEN ZeroQuote
             ELSE increaseLiquidityQuoteByLiquidityWithParams(
                      [liquidity |-> liquidity.v,
                       tickCurrentIndex |-> param.tickCurrentIndex,
                       sqrtPrice |-> param.sqrtPrice,
                       tickLowerIndex |-> param.tickLowerIndex,
                       tickUpperIndex |-> param.tickUpperIndex,
                       slippage |-> param.slippage])

getQuotePositionBelowRange(param) ==
    LET sqrtPriceLowerX64 == tickIndexToSqrtPriceX64(param.tickLowerIndex)
        sqrtPriceUpperX64 == tickIndexToSqrtPriceX64(param.tickUpperIndex)
        liquidityAmount == getLiquidityFromTokenA(param.inputTokenAmount, sqrtPriceLowerX64,
                                                  sqrtPriceUpperX64, FALSE)
    IN  IF param.tokenMintA # param.inputTokenMint THEN LiquidityEstimate("none", 0, 0, 0)
        ELSE IF liquidityAmount.err # "none" THEN LiquidityEstimate(liquidityAmount.err, 0, 0, 0)
        ELSE LiquidityEstimate("none", liquidityAmount.v,
                 getTokenAFromLiquidity(liquidityAmount.v, sqrtPriceLowerX64,
                                        sqrtPriceUpperX64, TRUE),
                 0)

getQuotePositionAboveRange(param) ==
    LET sqrtPriceLowerX64 == tickIndexToSqrtPriceX64(param.tickLowerIndex)
        sqrtPriceUpperX64 == tickIndexToSqrtPriceX64(param.tickUpperIndex)
        liquidityAmount == getLiquidityFromTokenB(param.inputTokenAmount, sqrtPriceLowerX64,
                                                  sqrtPriceUpperX64, FALSE)
    IN  IF param.tokenMintB # param.inputTokenMint THEN LiquidityEstimate("none", 0, 0, 0)
        ELSE IF liquidityAmount.err # "none" THEN LiquidityEstimate(liquidityAmount.err, 0, 0, 0)
        ELSE LiquidityEstimate("none", liquidityAmount.v, 0,
                 getTokenBFromLiquidity(liquidityAmount.v, sqrtPriceLowerX64,
                                        sqrtPriceUpperX64, TRUE))

getQuotePositionInRange(param) ==
    LET sqrtPriceX64 == param.sqrtPrice
        sqrtPriceLowerX64 == tickIndexToSqrtPriceX64(param.tickLowerIndex)
        sqrtPriceUpperX64 == tickIndexToSqrtPriceX64(param.tickUpperIndex)
        liquidityAmount ==
            IF param.tokenMintA = param.inputTokenMint
            THEN getLiquidityFromTokenA(param.inputTokenAmount, sqrtPriceX64,
                                        sqrtPriceUpperX64, FALSE)
            ELSE getLiquidityFromTokenB(param.inputTokenAmount, sqrtPriceLowerX64,
                                        sqrtPriceX64, FALSE)
    IN  IF liquidityAmount.err # "none" THEN LiquidityEstimate(liquidityAmount.err, 0, 0, 0)
        ELSE LiquidityEstimate("none", liquidityAmount.v,
                 getTokenAFromLiquidity(liquidityAmount.v, sqrtPriceX64,
                                        sqrtPriceUpperX64, TRUE),
                 getTokenBFromLiquidity(liquidityAmount.v, sqrtPriceLowerX64,
                                        sqrtPriceX64, TRUE))

quotePositionBelowRange(param) ==
    LET quote == getQuotePositionBelowRange(param)
    IN  IF quote.err # "none" THEN QuoteError(quote.err)
        ELSE Quote(adjustForSlippage(quote.tokenEstA, param.slippage, TRUE), 0,
                   quote.liquidityAmount, quote.tokenEstA, quote.tokenEstB)

\* quotePositionInRange with the slippage adjusted downwards
quotePositionInRange_AdjustDown(param) ==
    LET quote == getQuotePositionInRange(param)
    IN  IF quote.err # "none" THEN QuoteError(quote.err)
        ELSE Quote(adjustForSlippage(quote.tokenEstA, param.slippage, FALSE),
                   adjustForSlippage(quote.tokenEstB, param.slippage, FALSE),
                   quote.liquidityAmount, quote.tokenEstA, quote.tokenEstB)

quotePositionInRange(param) ==
    LET quote == getQuotePositionInRange(param)
    IN  IF quote.err # "none" THEN QuoteError(quote.err)
        ELSE Quote(adjustForSlippage(quote.tokenEstA, param.slippage, TRUE),
                   adjustForSlippage(quote.tokenEstB, param.slippage, TRUE),
                   quote.liquidityAmount, quote.tokenEstA, quote.tokenEstB)

quotePositionAboveRange(param) ==
    LET quote == getQuotePositionAboveRange(param)
    IN  IF quote.err # "none" THEN QuoteError(quote.err)
        ELSE Quote(0, adjustForSlippage(quote.tokenEstB, param.slippage, TRUE),
                   quote.liquidityAmount, quote.tokenEstA, quote.tokenEstB)

increaseLiquidityQuoteByInputTokenWithParams(param) ==
    IF ValidationError(param) # "none" THEN QuoteError(ValidationError(param))
    ELSE LET positionStatus == getStrictPositionStatus(param.sqrtPrice, param.tickLowerIndex,
                                                       param.tickUpperIndex)
         IN  CASE positionStatus = "BelowRange" -> quotePositionBelowRange(param)
               [] positionStatus = "InRange" -> quotePositionInRange(param)
               [] positionStatus = "AboveRange" -> quotePositionAboveRange(param)

(***************************************************************************)
(* The quote calls as a state machine: a pool state and a position are      *)
(* given, then one of the three exported quote functions is called once.    *)
(***************************************************************************)
\* no test case of the initialize_pool_v2 suite is running
InitPoolIdle ==
    /\ chain = <<>>
    /\ tcase = [running |-> FALSE]
    /\ outcome = <<>>

\* generatePercentageAmounts is not running on its own
GenerateIdle == gen = [pc |-> "idle"]

\* no pair of concurrent findBestRoutes calls is in progress
PairIdle ==
    /\ heap = <<>>
    /\ invocations = <<>>
    /\ schedule = <<>>

\* no findBestRoutes call is in progress
RouterIdle ==
    /\ rin = [called |-> FALSE]
    /\ world = <<>>
    /\ pc = "idle"
    /\ iteration = <<>>
    /\ quoteMap = <<>>
    /\ quoteUpdates = <<>>
    /\ calls = <<>>
    /\ quoteErrors = {}
    /\ returned = <<>>
    /\ raised = "none"

\* tick indices a caller may pass, one beyond the bounds on each side
TickInputs == (MinTick - 1)..(MaxTick + 1)

Mints == {"mintA", "mintB", "mintX"}

Slippages ==
    {[numerator |-> 0, denominator |-> 1],
     [numerator |-> 1, denominator |-> 4],
     [numerator |-> 1, denominator |-> 1]}

\* tickCurrentIndex of a pool whose sqrt-price is p: the tick of p, or the tick
\* below when a swap towards lower prices stopped exactly on a tick boundary
PoolTicks(p) ==
    LET t == sqrtPriceX64ToTickIndex(p)
    IN  {t} \cup (IF tickIndexToSqrtPriceX64(t) = p /\ t > MinTick THEN {t - 1} ELSE {})

QInit ==
    /\ \E p \in MIN_SQRT_PRICE..MAX_SQRT_PRICE, lo \in TickInputs, hi \in TickInputs,
          s \in Slippages :
          \E tc \in PoolTicks(p) :
              qparam = [inputTokenAmount |-> 0, inputTokenMint |-> "mintA",
                        tokenMintA |-> "mintA", tokenMintB |-> "mintB",
                        liquidity |-> 0,
                        tickCurrentIndex |-> tc, sqrtPrice |-> p,
                        tickLowerIndex |-> lo, tickUpperIndex |-> hi, slippage |-> s]
    /\ qop = "none"
    /\ qres = ZeroQuote
    /\ RouterIdle
    /\ PairIdle
    /\ InitPoolIdle
    /\ GenerateIdle

CallByLiquidity ==
    /\ qop = "none"
    /\ \E l \in 0..MaxAmount :
          /\ qparam' = [qparam EXCEPT !.liquidity = l]
          /\ qres' = increaseLiquidityQuoteByLiquidityWithParams(qparam')
    /\ qop' = "ByLiquidity"
    /\ UNCHANGED rvars
    /\ UNCHANGED pvars
    /\ UNCHANGED ivars
    /\ UNCHANGED gen

CallByInputToken_PriceSlippage ==
    /\ qop = "none"
    /\ \E amt \in 0..MaxAmount, m \in Mints :
          /\ qparam' = [qparam EXCEPT !.inputTokenAmount = amt, !.inputTokenMint = m]
          /\ qres' = increaseLiquidityQuoteByInputTokenWithParams_PriceSlippage(qparam')
    /\ qop' = "ByInputToken_PriceSlippage"
    /\ UNCHANGED rvars
    /\ UNCHANGED pvars
    /\ UNCHANGED ivars
    /\ UNCHANGED gen

CallByInputToken ==
    /\ qop = "none"
    /\ \E amt \in 0..MaxAmount, m \in Mints :
          /\ qparam' = [qparam EXCEPT !.inputTokenAmount = amt, !.inputTokenMint = m]
          /\ qres' = increaseLiquidityQuoteByInputTokenWithParams(qparam')
    /\ qop' = "ByInputToken"
    /\ UNCHANGED rvars
    /\ UNCHANGED pvars
    /\ UNCHANGED ivars
    /\ UNCHANGED gen

QNext == CallByLiquidity \/ CallByInputToken_PriceSlippage \/ CallByInputToken

SpecQuote == QInit /\ [][QNext]_vars

(***************************************************************************)
(* Claims about the liquidity quotes (checked under SpecQuote)              *)
(***************************************************************************)
SqrtLower == tickIndexToSqrtPriceX64(qparam.tickLowerIndex)

SqrtUpper == tickIndexToSqrtPriceX64(qparam.tickUpperIndex)

\* a by-input-token call that passed validation, on a position lower < upper
ValidPosition ==
    /\ checkTickInBounds(qparam.tickLowerIndex)
    /\ checkTickInBounds(qparam.tickUpperIndex)
    /\ qparam.tickLowerIndex < qparam.tickUpperIndex

PriceSlippageCall ==
    /\ qop = "ByInputToken_PriceSlippage"
    /\ ValidPosition
    /\ qparam.inputTokenMint \in {"mintA", "mintB"}

\* the quote is  L, ceil(A(L, a0, a1)), ceil(B(L, b0, b1))  for the liquidity L
\* (a value or an error); an undefined L makes the call raise that error
QuoteIsFrom(L, a0, a1, b0, b1) ==
    IF L.err # "none"
    THEN qres.err = L.err
    ELSE /\ qres.err = "none"
         /\ qres.liquidityAmount = L.v
         /\ qres.tokenEstA = getTokenAFromLiquidity(L.v, a0, a1, TRUE)
         /\ qres.tokenEstB = getTokenBFromLiquidity(L.v, b0, b1, TRUE)

\* C1: below the range (tickCurrentIndex < tickLowerIndex) with a positive
\* token-A input amt, the price-slippage quote has
\* L = floor(L_from_A(amt, sqrtP(lower), sqrtP(upper))),
\* tokenEstA = ceil(A(L, sqrtP(lower), sqrtP(upper))) whatever the current
\* sqrt-price is, tokenEstB = 0, and so tokenEstA <= amt.
C1_BelowRangeTokenA ==
    (/\ PriceSlippageCall
     /\ qparam.tickCurrentIndex < qparam.tickLowerIndex
     /\ qparam.inputTokenMint = "mintA"
     /\ qparam.inputTokenAmount > 0)
    => LET L == getLiquidityFromTokenA(qparam.inputTokenAmount, SqrtLower, SqrtUpper, FALSE)
       IN  /\ qres.err = "none"
           /\ qres.liquidityAmount = L.v
           /\ qres.tokenEstA = getTokenAFromLiquidity(L.v, SqrtLower, SqrtUpper, TRUE)
           /\ qres.tokenEstB = 0
           /\ qres.tokenEstA <= qparam.inputTokenAmount

\* C4: a position is Above whenever tickCurrentIndex >= tickUpperIndex, the
\* boundary included: token A as input gives liquidity 0 and all amounts 0;
\* token B as input gives L = L_from_B(amt, sqrtP(lower), sqrtP(upper)),
\* tokenEstB = ceil(B(L)) and tokenEstA = 0.
C4_AboveRangeFromUpperTick ==
    (/\ PriceSlippageCall
     /\ qparam.tickCurrentIndex >= qparam.tickUpperIndex
     /\ qparam.inputTokenAmount > 0)
    => IF qparam.inputTokenMint = "mintA"
       THEN qres = ZeroQuote
       ELSE LET L == getLiquidityFromTokenB(qparam.inputTokenAmount, SqrtLower, SqrtUpper,
                                            FALSE)
            IN  /\ qres.err = "none"
                /\ qres.liquidityAmount = L.v
                /\ qres.tokenEstB = getTokenBFromLiquidity(L.v, SqrtLower, SqrtUpper, TRUE)
                /\ qres.tokenEstA = 0

\* C5: in the range (tickLower <= tickCurrent < tickUpper) the price-slippage
\* quote for a token-A input has L = floor(L_from_A(amt, sqrtPrice, sqrtP(upper))),
\* for a token-B input L = floor(L_from_B(amt, sqrtP(lower), sqrtPrice)), and in
\* both cases tokenEstA = ceil(A(L, sqrtPrice, sqrtP(upper))) and
\* tokenEstB = ceil(B(L, sqrtP(lower), sqrtPrice)); where L is undefined
\* (the sqrt-price lies on the range's edge) the call raises.
C5_InRangeQuote ==
    (/\ PriceSlippageCall
     /\ qparam.tickLowerIndex <= qparam.tickCurrentIndex
     /\ qparam.tickCurrentIndex < qparam.tickUpperIndex
     /\ qparam.inputTokenAmount > 0)
    => QuoteIsFrom(IF qparam.inputTokenMint = "mintA"
                   THEN getLiquidityFromTokenA(qparam.inputTokenAmount, qparam.sqrtPrice,
                                               SqrtUpper, FALSE)
                   ELSE getLiquidityFromTokenB(qparam.inputTokenAmount, SqrtLower,
                                               qparam.sqrtPrice, FALSE),
                   qparam.sqrtPrice, SqrtUpper, SqrtLower, qparam.sqrtPrice)

C5_Witness ==
    /\ PriceSlippageCall
    /\ qparam.tickLowerIndex <= qparam.tickCurrentIndex
    /\ qparam.tickCurrentIndex < qparam.tickUpperIndex
    /\ qparam.inputTokenMint = "mintA"
    /\ qparam.inputTokenAmount > 0
    /\ qres.err = "none"
    /\ qres.liquidityAmount > 0
    /\ qres.tokenEstA > 0
    /\ qres.tokenEstB > 0

\* C6: every quote returned by one of the three quote functions for a position
\* (tickLower < tickUpper) has tokenMaxA >= tokenEstA and tokenMaxB >= tokenEstB.
C6_SlippageEnvelope ==
    (/\ qop # "none"
     /\ qres.err = "none"
     /\ qparam.tickLowerIndex < qparam.tickUpperIndex)
    => /\ qres.tokenMaxA >= qres.tokenEstA
       /\ qres.tokenMaxB >= qres.tokenEstB

C6_Witness ==
    /\ qop = "ByInputToken"
    /\ ValidPosition
    /\ qres.err = "none"
    /\ qparam.slippage.numerator > 0
    /\ qres.tokenEstA > 0
    /\ qres.tokenEstB > 0
    /\ qres.tokenMaxA > qres.tokenEstA
    /\ qres.tokenMaxB > qres.tokenEstB

\* the estimate for the given liquidity at sqrt-price p with tick index t
EstimateAt(p, t) ==
    getTokenEstimatesFromLiquidity([qparam EXCEPT !.sqrtPrice = p, !.tickCurrentIndex = t])

\* C7: the by-liquidity quote for liquidity > 0 has tokenEstA/B = the estimate
\* at the unshifted (sqrtPrice, tickCurrentIndex), tokenMaxA/B = the maximum of
\* the estimates at the current price and at the two slippage bounds, each
\* bound with its own sqrt-price and tick index, and liquidityAmount = liquidity.
C7_ByLiquidityQuote ==
    (qop = "ByLiquidity" /\ qparam.liquidity > 0)
    => LET b == getSlippageBoundForSqrtPrice(qparam.sqrtPrice, qparam.slippage)
           cur == EstimateAt(qparam.sqrtPrice, qparam.tickCurrentIndex)
           lo == EstimateAt(b.lowerBound[1], sqrtPriceX64ToTickIndex(b.lowerBound[1]))
           hi == EstimateAt(b.upperBound[1], sqrtPriceX64ToTickIndex(b.upperBound[1]))
       IN  /\ qres.err = "none"
           /\ qres.liquidityAmount = qparam.liquidity
           /\ qres.tokenEstA = cur.tokenEstA
           /\ qres.tokenEstB = cur.tokenEstB
           /\ \A x \in {cur.tokenEstA, lo.tokenEstA, hi.tokenEstA} : qres.tokenMaxA >= x
           /\ qres.tokenMaxA \in {cur.tokenEstA, lo.tokenEstA, hi.tokenEstA}
           /\ \A x \in {cur.tokenEstB, lo.tokenEstB, hi.tokenEstB} : qres.tokenMaxB >= x
           /\ qres.tokenMaxB \in {cur.tokenEstB, lo.tokenEstB, hi.tokenEstB}

\* an in-range position whose maxima come from the two different bounds
C7_Witness ==
    /\ qop = "ByLiquidity"
    /\ qparam.liquidity > 0
    /\ ValidPosition
    /\ qparam.tickLowerIndex <= qparam.tickCurrentIndex
    /\ qparam.tickCurrentIndex < qparam.tickUpperIndex
    /\ qres.err = "none"
    /\ qres.tokenMaxA > qres.tokenEstA
    /\ qres.tokenMaxB > qres.tokenEstB

(***************************************************************************)
(* The split router: findBestRoutes and its helpers                         *)
(***************************************************************************)
\* largest tradeAmount of a findBestRoutes call
MaxTradeAmount == 100
\* a shallow pool fills a swap of at most PoolDepth with its three tick arrays
PoolDepth == 50
\* at most MaxFaultyPools pools of a call are in another state than "ok"
MaxFaultyPools == 2

inputTokenMint == "tokX"

outputTokenMint == "tokY"

\* pools: Record<string, TokenPairPool>, the pool graph's view of each pool
pools ==
    [P1 |-> [address |-> "P1", tokenMintA |-> "tokX", tokenMintB |-> "tokY"],
     P2 |-> [address |-> "P2", tokenMintA |-> "tokX", tokenMintB |-> "tokY"],
     P3 |-> [address |-> "P3", tokenMintA |-> "tokM", tokenMintB |-> "tokX"],
     P4 |-> [address |-> "P4", tokenMintA |-> "tokM", tokenMintB |-> "tokY"]]

PoolAddrs == DOMAIN pools

\* walks[getRouteId(inputTokenMint, outputTokenMint)]: the candidate routes, a
\* two-hop route in either orientation
PairRouteChoices ==
    {<< >>,
     << <<"P1">> >>,
     << <<"P1">>, <<"P2">> >>,
     << <<"P3", "P4">> >>,
     << <<"P4", "P3">> >>,
     << <<"P1">>, <<"P3", "P4">> >>,
     << <<"P4", "P3">>, <<"P1">> >>,
     << <<"P1">>, <<"P2">>, <<"P3", "P4">> >>}

DEFAULT_ROUTING_OPTIONS ==
    [percentIncrement |-> 20, numTopRoutes |-> 50, numTopPartialQuotes |-> 10, maxSplits |-> 3]

\* userRoutingOptions: the default argument, a coarser increment, the same with
\* one route set and one partial quote kept, or an increment that does not
\* divide 100
UserRoutingOptions ==
    {DEFAULT_ROUTING_OPTIONS,
     [percentIncrement |-> 50],
     [percentIncrement |-> 50, numTopRoutes |-> 1, numTopPartialQuotes |-> 1],
     [percentIncrement |-> 30]}

\* { ...DEFAULT_ROUTING_OPTIONS, ...userRoutingOptions }
MergeOptions(user) ==
    [k \in DOMAIN DEFAULT_ROUTING_OPTIONS |->
        IF k \in DOMAIN user THEN user[k] ELSE DEFAULT_ROUTING_OPTIONS[k]]

\* what the chain holds for a pool
PoolStatus ==
    {"ok", "shallow", "zeroLiquidity", "overflow", "missing", "missingTickArray"}

Range(s) == {s[i] : i \in DOMAIN s}

RECURSIVE Reverse(_)
Reverse(s) == IF s = << >> THEN << >> ELSE Reverse(Tail(s)) \o <<Head(s)>>

PoolsOf(pairRoutes) == UNION {Range(pairRoutes[i]) : i \in DOMAIN pairRoutes}

\* the amounts rounded up instead of down
generatePercentageAmounts_RoundsUp(inputAmount, minPercent) ==
    LET n == 100 \div minPercent
    IN  [percents |-> [i \in 1..n |-> i * minPercent],
         amounts |-> [i \in 1..n |-> (inputAmount * (i * minPercent) + 99) \div 100]]

generatePercentageAmounts(inputAmount, minPercent) ==
    LET n == 100 \div minPercent
    IN  [percents |-> [i \in 1..n |-> i * minPercent],
         amounts |-> [i \in 1..n |-> (inputAmount * (i * minPercent)) \div 100]]

\* Math.max(...pairRoutes.map((route) => route.length))
MaxRouteLength(pairRoutes) ==
    CHOOSE m \in {Len(pairRoutes[i]) : i \in DOMAIN pairRoutes} :
        \A i \in DOMAIN pairRoutes : Len(pairRoutes[i]) <= m

\* the iteration without the reverse() of lines 113-115
HopIteration_NeverReversed(maxRouteLength, amountSpecifiedIsInput) ==
    [i \in 1..maxRouteLength |-> i - 1]

\* Array.from(Array(maxRouteLength).keys()), reversed when output-specified
HopIteration(maxRouteLength, amountSpecifiedIsInput) ==
    IF amountSpecifiedIsInput
    THEN [i \in 1..maxRouteLength |-> i - 1]
    ELSE [i \in 1..maxRouteLength |-> maxRouteLength - i]

\* an empty slot of calculatedHops
NoHop ==
    [filled |-> FALSE, percent |-> 0, amountIn |-> 0, amountOut |-> 0,
     whirlpool |-> "", inputMint |-> "", outputMint |-> ""]

\* an empty slot of quoteMap[percent] = Array(pairRoutes.length)
Hole == [set |-> FALSE, percent |-> 0, route |-> << >>, calculatedHops |-> << >>]

\* calculatedHops[i] for a 0-based index, undefined outside the array
HopAt(calculatedHops, i) ==
    IF i >= 0 /\ i < Len(calculatedHops) THEN calculatedHops[i + 1] ELSE NoHop

SkipsHop(route, hop, amountSpecifiedIsInput) ==
    IF amountSpecifiedIsInput THEN Len(route) <= hop ELSE hop > Len(route) - 1

StartingRouteEval(route, hop, amountSpecifiedIsInput) ==
    IF amountSpecifiedIsInput THEN hop = 0 ELSE hop = Len(route) - 1

\* the route reversed when its first pool does not hold the input token
OrderedRoute(route) ==
    IF /\ pools[route[1]].tokenMintA # inputTokenMint
       /\ pools[route[1]].tokenMintB # inputTokenMint
    THEN Reverse(route)
    ELSE route

\* buildQuoteUpdateRequests, its effect on quoteMap: the percents' arrays are
\* created and the slot of every route that starts at this hop is initialised
InitQuoteMap(pairRoutes, percents, hop, amountSpecifiedIsInput, qm) ==
    [p \in DOMAIN qm \cup Range(percents) |->
        [r \in 1..Len(pairRoutes) |->
            IF /\ p \in Range(percents)
               /\ ~SkipsHop(pairRoutes[r], hop, amountSpecifiedIsInput)
               /\ StartingRouteEval(pairRoutes[r], hop, amountSpecifiedIsInput)
            THEN [set |-> TRUE, percent |-> p, route |-> pairRoutes[r],
                  calculatedHops |-> [i \in 1..Len(pairRoutes[r]) |-> NoHop]]
            ELSE IF p \in DOMAIN qm THEN qm[p][r] ELSE Hole]]

\* buildQuoteUpdateRequests without the check of lines 269-271: a hop is
\* requested whether or not the hop before it was quoted
RECURSIVE BuildUpdates_NoLastHopCheck(_, _, _)
BuildUpdates_NoLastHopCheck(c, k, acc) ==
    IF k >= Len(c.percents) * Len(c.pairRoutes) THEN acc
    ELSE LET amountIndex == k \div Len(c.pairRoutes)
             routeIndex == k % Len(c.pairRoutes)
             percent == c.percents[amountIndex + 1]
             tradeAmount == c.amounts[amountIndex + 1]
             route == c.pairRoutes[routeIndex + 1]
             startingRouteEval == StartingRouteEval(route, c.hop, c.amountSpecifiedIsInput)
             currentQuote == c.quoteMap[percent][routeIndex + 1]
             pool == pools[OrderedRoute(route)[c.hop + 1]]
             lastHop == IF c.amountSpecifiedIsInput
                        THEN HopAt(currentQuote.calculatedHops, c.hop - 1)
                        ELSE HopAt(currentQuote.calculatedHops, c.hop + 1)
         IN  IF SkipsHop(route, c.hop, c.amountSpecifiedIsInput)
             THEN BuildUpdates_NoLastHopCheck(c, k + 1, acc)
             ELSE BuildUpdates_NoLastHopCheck(c, k + 1, Append(acc,
                      [percent |-> percent,
                       routeIndex |-> routeIndex,
                       hopIndex |-> c.hop,
                       quoteIndex |-> Len(acc),
                       address |-> pool.address,
                       request |-> [whirlpool |-> pool.address,
                                    tradeTokenMint |->
                                        IF c.amountSpecifiedIsInput
                                        THEN (IF startingRouteEval \/ ~lastHop.filled
                                              THEN inputTokenMint ELSE lastHop.outputMint)
                                        ELSE (IF startingRouteEval \/ ~lastHop.filled
                                              THEN outputTokenMint ELSE lastHop.inputMint),
                                    tokenAmount |->
                                        IF startingRouteEval THEN tradeAmount
                                        ELSE IF c.amountSpecifiedIsInput THEN lastHop.amountOut
                                        ELSE lastHop.amountIn,
                                    amountSpecifiedIsInput |-> c.amountSpecifiedIsInput]]))

\* buildQuoteUpdateRequests, the requests: amountIndex-major, routeIndex-minor;
\* k counts the (amountIndex, routeIndex) pairs visited, acc are the requests
RECURSIVE BuildUpdates(_, _, _)
BuildUpdates(c, k, acc) ==
    IF k >= Len(c.percents) * Len(c.pairRoutes) THEN acc
    ELSE LET amountIndex == k \div Len(c.pairRoutes)
             routeIndex == k % Len(c.pairRoutes)
             percent == c.percents[amountIndex + 1]
             tradeAmount == c.amounts[amountIndex + 1]
             route == c.pairRoutes[routeIndex + 1]
             startingRouteEval == StartingRouteEval(route, c.hop, c.amountSpecifiedIsInput)
             currentQuote == c.quoteMap[percent][routeIndex + 1]
             pool == pools[OrderedRoute(route)[c.hop + 1]]
             lastHop == IF c.amountSpecifiedIsInput
                        THEN HopAt(currentQuote.calculatedHops, c.hop - 1)
                        ELSE HopAt(currentQuote.calculatedHops, c.hop + 1)
             tokenAmount == IF startingRouteEval THEN tradeAmount
                            ELSE IF c.amountSpecifiedIsInput THEN lastHop.amountOut
                            ELSE lastHop.amountIn
             tradeToken == IF c.amountSpecifiedIsInput
                           THEN (IF startingRouteEval THEN inputTokenMint
                                 ELSE lastHop.outputMint)
                           ELSE (IF startingRouteEval THEN outputTokenMint
                                 ELSE lastHop.inputMint)
         IN  IF SkipsHop(route, c.hop, c.amountSpecifiedIsInput)
             THEN BuildUpdates(c, k + 1, acc)
             ELSE IF ~startingRouteEval /\ ~lastHop.filled
             THEN BuildUpdates(c, k + 1, acc)
             ELSE BuildUpdates(c, k + 1, Append(acc,
                      [percent |-> percent,
                       routeIndex |-> routeIndex,
                       hopIndex |-> c.hop,
                       quoteIndex |-> Len(acc),
                       address |-> pool.address,
                       request |-> [whirlpool |-> pool.address,
                                    tradeTokenMint |-> tradeToken,
                                    tokenAmount |-> tokenAmount,
                                    amountSpecifiedIsInput |-> c.amountSpecifiedIsInput]]))

buildQuoteUpdateRequests(pairRoutes, percents, amounts, hop, amountSpecifiedIsInput, qm) ==
    LET qm1 == InitQuoteMap(pairRoutes, percents, hop, amountSpecifiedIsInput, qm)
    IN  [quoteMap |-> qm1,
         quoteUpdates |-> BuildUpdates([pairRoutes |-> pairRoutes, percents |-> percents,
                                        amounts |-> amounts, hop |-> hop,
                                        amountSpecifiedIsInput |-> amountSpecifiedIsInput,
                                        quoteMap |-> qm1], 0, << >>)]

\* batchSwapQuoteByToken: one SwapQuoteParam per request, in the requests'
\* order, from the pool and tick arrays the fetcher finds
batchSwapQuoteByToken(requests, w) ==
    [i \in 1..Len(requests) |->
        LET req == requests[i]
            found == w[req.whirlpool] # "missing"
            isTokenA == pools[req.whirlpool].tokenMintA = req.tradeTokenMint
        IN  [whirlpool |-> req.whirlpool,
             whirlpoolData |-> [found |-> found,
                                tokenMintA |-> pools[req.whirlpool].tokenMintA,
                                tokenMintB |-> pools[req.whirlpool].tokenMintB],
             tickArrays |-> [found |-> found /\ w[req.whirlpool] # "missingTickArray"],
             tokenAmount |-> req.tokenAmount,
             aToB |-> (isTokenA = req.amountSpecifiedIsInput),
             amountSpecifiedIsInput |-> req.amountSpecifiedIsInput]]

\* the price of a pool: 9/10 of the input comes out, 8/10 in pool P2
SwapRate(whirlpool) ==
    IF whirlpool = "P2" THEN [num |-> 4, den |-> 5] ELSE [num |-> 9, den |-> 10]

\* swapQuoteWithParams with zero slippage: otherAmountThreshold is the
\* estimated output (input-specified) or input (output-specified), or the
\* call throws
swapQuoteWithParams(param, w) ==
    LET rate == SwapRate(param.whirlpool)
        status == w[param.whirlpool]
    IN  IF ~param.whirlpoolData.found THEN [err |-> "PoolNotFound", otherAmountThreshold |-> 0]
        ELSE IF ~param.tickArrays.found
        THEN [err |-> "TickArrayNotFound", otherAmountThreshold |-> 0]
        ELSE IF status = "zeroLiquidity"
        THEN [err |-> "ZeroLiquidity", otherAmountThreshold |-> 0]
        ELSE IF status = "overflow"
        THEN [err |-> "ArithmeticOverflow", otherAmountThreshold |-> 0]
        ELSE IF status = "shallow" /\ param.tokenAmount > PoolDepth
        THEN [err |-> "InsufficientTickArrays", otherAmountThreshold |-> 0]
        ELSE [err |-> "none",
              otherAmountThreshold |->
                  IF param.amountSpecifiedIsInput
                  THEN (param.tokenAmount * rate.num) \div rate.den
                  ELSE (param.tokenAmount * rate.den + rate.num - 1) \div rate.num]

\* the stored hop with line 189 ignoring aToB: the input mint is always mint A
HopOf_IgnoresDirection(update, swapParam, quote) ==
    [filled |-> TRUE,
     percent |-> update.percent,
     amountIn |-> IF swapParam.amountSpecifiedIsInput THEN swapParam.tokenAmount
                  ELSE quote.otherAmountThreshold,
     amountOut |-> IF swapParam.amountSpecifiedIsInput THEN quote.otherAmountThreshold
                   ELSE swapParam.tokenAmount,
     whirlpool |-> update.address,
     inputMint |-> swapParam.whirlpoolData.tokenMintA,
     outputMint |-> swapParam.whirlpoolData.tokenMintB]

\* the hop that updateQuoteMap stores for a quote that did not throw
HopOf(update, swapParam, quote) ==
    [filled |-> TRUE,
     percent |-> update.percent,
     amountIn |-> IF swapParam.amountSpecifiedIsInput THEN swapParam.tokenAmount
                  ELSE quote.otherAmountThreshold,
     amountOut |-> IF swapParam.amountSpecifiedIsInput THEN quote.otherAmountThreshold
                   ELSE swapParam.tokenAmount,
     whirlpool |-> update.address,
     inputMint |-> IF swapParam.aToB THEN swapParam.whirlpoolData.tokenMintA
                   ELSE swapParam.whirlpoolData.tokenMintB,
     outputMint |-> IF swapParam.aToB THEN swapParam.whirlpoolData.tokenMintB
                    ELSE swapParam.whirlpoolData.tokenMintA]

\* updateQuoteMap without the try / catch of lines 180-205: the hop of a
\* quote that failed is stored like any other
updateQuoteMap_StoresFailedQuote(updates, quoteParams, qm, w) ==
    [p \in DOMAIN qm |->
        [r \in DOMAIN qm[p] |->
            LET mine == {i \in DOMAIN updates :
                            /\ updates[i].percent = p
                            /\ updates[i].routeIndex = r - 1}
            IN  IF mine = {} THEN qm[p][r]
                ELSE LET i == CHOOSE i \in mine : TRUE
                         swapParam == quoteParams[updates[i].quoteIndex + 1]
                     IN  [qm[p][r] EXCEPT !.calculatedHops[updates[i].hopIndex + 1] =
                             HopOf(updates[i], swapParam, swapQuoteWithParams(swapParam, w))]]]

\* updateQuoteMap: every update whose quote does not throw fills its hop slot;
\* a throwing quote is caught and skipped
updateQuoteMap(updates, quoteParams, qm, w) ==
    [p \in DOMAIN qm |->
        [r \in DOMAIN qm[p] |->
            LET mine == {i \in DOMAIN updates :
                            /\ updates[i].percent = p
                            /\ updates[i].routeIndex = r - 1
                            /\ swapQuoteWithParams(
                                   quoteParams[updates[i].quoteIndex + 1], w).err = "none"}
            IN  IF mine = {} THEN qm[p][r]
                ELSE LET i == CHOOSE i \in mine : TRUE
                         swapParam == quoteParams[updates[i].quoteIndex + 1]
                     IN  [qm[p][r] EXCEPT !.calculatedHops[updates[i].hopIndex + 1] =
                             HopOf(updates[i], swapParam, swapQuoteWithParams(swapParam, w))]]]

\* the updates whose quote threw in one batch, each with the error that
\* updateQuoteMap caught
CaughtErrors(updates, quoteParams, w) ==
    {[percent |-> updates[i].percent,
      routeIndex |-> updates[i].routeIndex,
      hopIndex |-> updates[i].hopIndex,
      err |-> swapQuoteWithParams(quoteParams[updates[i].quoteIndex + 1], w).err] :
        i \in {i \in DOMAIN updates :
                  swapQuoteWithParams(quoteParams[updates[i].quoteIndex + 1], w).err
                      # "none"}}

\* a quoteMap slot whose hops are all filled
IsComplete(entry) ==
    Cardinality({i \in DOMAIN entry.calculatedHops : entry.calculatedHops[i].filled})
        = Len(entry.route)

\* the RouteQuote that cleanQuoteMap makes of a complete slot
CleanedQuote(entry, percent, tradeAmount, amountSpecifiedIsInput) ==
    LET calculatedHops == entry.calculatedHops
        otherAmount == IF amountSpecifiedIsInput
                       THEN calculatedHops[Len(calculatedHops)].amountOut
                       ELSE calculatedHops[1].amountIn
    IN  [percent |-> percent,
         route |-> entry.route,
         amountIn |-> IF amountSpecifiedIsInput THEN tradeAmount ELSE otherAmount,
         amountOut |-> IF amountSpecifiedIsInput THEN otherAmount ELSE tradeAmount,
         calculatedHops |-> calculatedHops]

cleanQuoteMap(tradeAmount, amountSpecifiedIsInput, qm) ==
    [p \in DOMAIN qm |->
        LET done == SelectSeq(qm[p], IsComplete)
        IN  [i \in 1..Len(done) |->
                CleanedQuote(done[i], p, tradeAmount, amountSpecifiedIsInput)]]

\* destructuring an empty slot of quoteMap[percent] in cleanQuoteMap throws
CleanThrows(qm) == \E p \in DOMAIN qm : \E r \in DOMAIN qm[p] : ~qm[p][r].set

getSingleHopSplit(cleaned) ==
    IF 100 \in DOMAIN cleaned
    THEN LET IsSingleHop(f) == Len(f.calculatedHops) = 1
             single == SelectSeq(cleaned[100], IsSingleHop)
         IN  [i \in 1..Len(single) |->
                 [quotes |-> <<single[i]>>,
                  percent |-> 100,
                  totalIn |-> single[i].calculatedHops[1].amountIn,
                  totalOut |-> single[i].calculatedHops[1].amountOut]]
    ELSE << >>

\* sortFn with its two comparators the wrong way round
QuoteBefore_WorstFirst(a, b, amountSpecifiedIsInput) ==
    IF amountSpecifiedIsInput THEN a.amountOut < b.amountOut ELSE a.amountIn > b.amountIn

\* sortFn of pruneQuoteMap: a sorts strictly before b
QuoteBefore(a, b, amountSpecifiedIsInput) ==
    IF amountSpecifiedIsInput THEN a.amountOut > b.amountOut ELSE a.amountIn < b.amountIn

\* Array.prototype.sort (stable) with sortFn
RECURSIVE SortQuotes(_, _)
SortQuotes(s, amountSpecifiedIsInput) ==
    IF Len(s) <= 1 THEN s
    ELSE LET t == SortQuotes(Tail(s), amountSpecifiedIsInput)
             k == Cardinality({i \in DOMAIN t : QuoteBefore(t[i], Head(s), amountSpecifiedIsInput)})
         IN  SubSeq(t, 1, k) \o <<Head(s)>> \o SubSeq(t, k + 1, Len(t))

pruneQuoteMap(cleaned, pruneN, amountSpecifiedIsInput) ==
    [p \in DOMAIN cleaned |->
        LET sortedQuotes == SortQuotes(cleaned[p], amountSpecifiedIsInput)
        IN  SubSeq(sortedQuotes, 1, BNMin(pruneN, Len(sortedQuotes)))]

RECURSIVE SumPercent(_)
SumPercent(qs) == IF qs = << >> THEN 0 ELSE Head(qs).percent + SumPercent(Tail(qs))

RECURSIVE SumAmountIn(_)
SumAmountIn(qs) == IF qs = << >> THEN 0 ELSE Head(qs).amountIn + SumAmountIn(Tail(qs))

RECURSIVE SumAmountOut(_)
SumAmountOut(qs) == IF qs = << >> THEN 0 ELSE Head(qs).amountOut + SumAmountOut(Tail(qs))

RECURSIVE SumRouteLength(_)
SumRouteLength(qs) == IF qs = << >> THEN 0 ELSE Len(Head(qs).route) + SumRouteLength(Tail(qs))

\* the split set of some route quotes: amountIn / amountOut summed over members
buildRouteSet(quotes) ==
    [quotes |-> quotes,
     percent |-> SumPercent(quotes),
     totalIn |-> SumAmountIn(quotes),
     totalOut |-> SumAmountOut(quotes)]

\* getRouteSetCompare: a sorts strictly before b: the objective, then fewer
\* splits, then shorter total route length
RouteSetBefore(a, b, amountSpecifiedIsInput) ==
    LET objA == IF amountSpecifiedIsInput THEN -a.totalOut ELSE a.totalIn
        objB == IF amountSpecifiedIsInput THEN -b.totalOut ELSE b.totalIn
    IN  \/ objA < objB
        \/ objA = objB /\ Len(a.quotes) < Len(b.quotes)
        \/ /\ objA = objB
           /\ Len(a.quotes) = Len(b.quotes)
           /\ SumRouteLength(a.quotes) < SumRouteLength(b.quotes)

RECURSIVE SortRouteSets(_, _)
SortRouteSets(s, amountSpecifiedIsInput) ==
    IF Len(s) <= 1 THEN s
    ELSE LET t == SortRouteSets(Tail(s), amountSpecifiedIsInput)
             k == Cardinality({i \in DOMAIN t :
                                  RouteSetBefore(t[i], Head(s), amountSpecifiedIsInput)})
         IN  SubSeq(t, 1, k) \o <<Head(s)>> \o SubSeq(t, k + 1, Len(t))

\* the members' positions <<percent, index>> in the pruned quote map
QuoteRefs(pruned) == UNION {{<<p, i>> : i \in DOMAIN pruned[p]} : p \in DOMAIN pruned}

\* the sets of at most k members whose percents sum to need and whose routes
\* start at pairwise different pools, none of them in used
RECURSIVE SplitCombos(_, _, _, _)
SplitCombos(pruned, need, k, used) ==
    IF need = 0 THEN {{}}
    ELSE IF k = 0 THEN {}
    ELSE UNION {{{a} \cup rest :
                    rest \in SplitCombos(pruned, need - a[1], k - 1,
                                         used \cup {pruned[a[1]][a[2]].route[1]})} :
                a \in {a \in QuoteRefs(pruned) :
                          /\ a[1] <= need
                          /\ pruned[a[1]][a[2]].route[1] \notin used}}

\* a set of members as a list, larger percents first
RECURSIVE RefsToQuotes(_, _)
RefsToQuotes(pruned, refs) ==
    IF refs = {} THEN << >>
    ELSE LET a == CHOOSE a \in refs :
                      \A b \in refs : a[1] > b[1] \/ (a[1] = b[1] /\ a[2] <= b[2])
         IN  <<pruned[a[1]][a[2]]>> \o RefsToQuotes(pruned, refs \ {a})

RECURSIVE SetToSeq(_)
SetToSeq(S) ==
    IF S = {} THEN << >>
    ELSE LET x == CHOOSE x \in S : TRUE IN <<x>> \o SetToSeq(S \ {x})

\* getRankedRouteSets: the split sets of 1..maxSplits members summing to 100,
\* ranked by the objective, the best topN of them
getRankedRouteSets(pruned, amountSpecifiedIsInput, topN, maxSplits) ==
    LET routeSets == {buildRouteSet(RefsToQuotes(pruned, c)) :
                         c \in SplitCombos(pruned, 100, maxSplits, {})}
        ranked == SortRouteSets(SetToSeq(routeSets), amountSpecifiedIsInput)
    IN  SubSeq(ranked, 1, BNMin(topN, Len(ranked)))

\* lines 141-154 with the baseline taken from the pruned quote map
FinishRoutes_BaselineFromPruned(tradeAmount, amountSpecifiedIsInput, options, qm) ==
    LET cleanedQuoteMap == cleanQuoteMap(tradeAmount, amountSpecifiedIsInput, qm)
        prunedQuoteMap == pruneQuoteMap(cleanedQuoteMap, options.numTopPartialQuotes,
                                        amountSpecifiedIsInput)
        singleHopSingleSplit == getSingleHopSplit(prunedQuoteMap)
    IN  SortRouteSets(getRankedRouteSets(prunedQuoteMap, amountSpecifiedIsInput,
                                         options.numTopRoutes, options.maxSplits)
                          \o singleHopSingleSplit,
                      amountSpecifiedIsInput)

\* lines 141-154 without the final sort: the baseline follows the ranked sets
FinishRoutes_BaselineAppended(tradeAmount, amountSpecifiedIsInput, options, qm) ==
    LET cleanedQuoteMap == cleanQuoteMap(tradeAmount, amountSpecifiedIsInput, qm)
        singleHopSingleSplit == getSingleHopSplit(cleanedQuoteMap)
        prunedQuoteMap == pruneQuoteMap(cleanedQuoteMap, options.numTopPartialQuotes,
                                        amountSpecifiedIsInput)
    IN  getRankedRouteSets(prunedQuoteMap, amountSpecifiedIsInput,
                           options.numTopRoutes, options.maxSplits)
            \o singleHopSingleSplit

\* lines 141-154 of findBestRoutes: clean, baseline, prune, rank, merge, sort
FinishRoutes(tradeAmount, amountSpecifiedIsInput, options, qm) ==
    LET cleanedQuoteMap == cleanQuoteMap(tradeAmount, amountSpecifiedIsInput, qm)
        singleHopSingleSplit == getSingleHopSplit(cleanedQuoteMap)
        prunedQuoteMap == pruneQuoteMap(cleanedQuoteMap, options.numTopPartialQuotes,
                                        amountSpecifiedIsInput)
    IN  SortRouteSets(getRankedRouteSets(prunedQuoteMap, amountSpecifiedIsInput,
                                         options.numTopRoutes, options.maxSplits)
                          \o singleHopSingleSplit,
                      amountSpecifiedIsInput)

(***************************************************************************)
(* findBestRoutes as a state machine.  The call runs from one await to the  *)
(* next: listPools, listTickArrays, then one batchSwapQuoteByToken per hop. *)
(***************************************************************************)
\* no quote call is in progress
QuoteIdle ==
    /\ qparam = [called |-> FALSE]
    /\ qop = "none"
    /\ qres = ZeroQuote

Options == MergeOptions(rin.userRoutingOptions)

Percentages == generatePercentageAmounts(rin.tradeAmount, Options.percentIncrement)

\* one call of the fetcher: the accounts or quotes it asks for, and for a
\* batch of quotes the (percent, routeIndex) pairs they belong to
Call(op, hop, size, pairs) == [op |-> op, hop |-> hop, size |-> size, pairs |-> pairs]

RInit ==
    /\ \E pr \in PairRouteChoices, hasRoutes \in BOOLEAN,
          t \in {0, MaxTradeAmount - 1, MaxTradeAmount}, isInput \in BOOLEAN,
          u \in UserRoutingOptions :
          /\ ~hasRoutes => pr = << >>
          /\ rin = [hasRoutes |-> hasRoutes, pairRoutes |-> pr, tradeAmount |-> t,
                    amountSpecifiedIsInput |-> isInput, userRoutingOptions |-> u]
          /\ world \in {w \in [PoolAddrs -> PoolStatus] :
                           /\ \A a \in PoolAddrs \ PoolsOf(pr) : w[a] = "ok"
                           /\ Cardinality({a \in PoolAddrs : w[a] # "ok"})
                                  <= MaxFaultyPools}
    /\ pc = "idle"
    /\ iteration = << >>
    /\ quoteMap = << >>
    /\ quoteUpdates = << >>
    /\ calls = << >>
    /\ quoteErrors = {}
    /\ returned = << >>
    /\ raised = "none"
    /\ QuoteIdle
    /\ PairIdle
    /\ InitPoolIdle
    /\ GenerateIdle

\* lines 90-100: return [] when there is nothing to route, else prefetch
FindBestRoutes ==
    /\ pc = "idle"
    /\ IF ~rin.hasRoutes \/ rin.tradeAmount = 0
       THEN /\ pc' = "done"
            /\ returned' = << >>
            /\ UNCHANGED calls
       ELSE /\ pc' = "listPools"
            /\ calls' = Append(calls, Call("listPools", -1,
                                           Cardinality(PoolsOf(rin.pairRoutes)), {}))
            /\ UNCHANGED returned
    /\ UNCHANGED <<rin, world, iteration, quoteMap, quoteUpdates, quoteErrors, raised>>
    /\ UNCHANGED qvars
    /\ UNCHANGED pvars
    /\ UNCHANGED ivars
    /\ UNCHANGED gen

\* lines 49-76: the pools arrive; the tick arrays of the pools found are fetched
ListPoolsReturn ==
    /\ pc = "listPools"
    /\ pc' = "listTickArrays"
    /\ calls' = Append(calls, Call("listTickArrays", -1,
                   Cardinality({a \in PoolsOf(rin.pairRoutes) : world[a] # "missing"}), {}))
    /\ UNCHANGED <<rin, world, iteration, quoteMap, quoteUpdates, quoteErrors, returned,
                   raised>>
    /\ UNCHANGED qvars
    /\ UNCHANGED pvars
    /\ UNCHANGED ivars
    /\ UNCHANGED gen

\* lines 117-136 for the hops iter, of which the first is quoted now
StartHop(iter, qm) ==
    LET b == buildQuoteUpdateRequests(rin.pairRoutes, Percentages.percents,
                                      Percentages.amounts, Head(iter),
                                      rin.amountSpecifiedIsInput, qm)
    IN  /\ iteration' = iter
        /\ quoteMap' = b.quoteMap
        /\ quoteUpdates' = b.quoteUpdates
        /\ calls' = Append(calls, Call("batchSwapQuoteByToken", Head(iter),
                                       Len(b.quoteUpdates),
                                       {<<b.quoteUpdates[i].percent,
                                          b.quoteUpdates[i].routeIndex>> :
                                            i \in DOMAIN b.quoteUpdates}))
        /\ pc' = "batch"

\* lines 102-136: the tick arrays arrive; the first hop's batch is requested
ListTickArraysReturn ==
    /\ pc = "listTickArrays"
    /\ IF rin.pairRoutes = << >>
       THEN /\ raised' = "RangeError: Invalid array length"
            /\ pc' = "done"
            /\ UNCHANGED <<iteration, quoteMap, quoteUpdates, calls>>
       ELSE /\ StartHop(HopIteration(MaxRouteLength(rin.pairRoutes),
                                     rin.amountSpecifiedIsInput), quoteMap)
            /\ UNCHANGED raised
    /\ UNCHANGED <<rin, world, quoteErrors, returned>>
    /\ UNCHANGED qvars
    /\ UNCHANGED pvars
    /\ UNCHANGED ivars
    /\ UNCHANGED gen

\* lines 138-154: a batch arrives and is spliced into quoteMap; then the next
\* hop's batch is requested, or the routes are cleaned, ranked and returned
BatchReturn ==
    /\ pc = "batch"
    /\ LET quoteParams == batchSwapQuoteByToken(
                              [i \in DOMAIN quoteUpdates |-> quoteUpdates[i].request], world)
           qm1 == updateQuoteMap(quoteUpdates, quoteParams, quoteMap, world)
       IN  /\ quoteErrors' = quoteErrors \cup CaughtErrors(quoteUpdates, quoteParams, world)
           /\ IF Tail(iteration) # << >>
              THEN /\ StartHop(Tail(iteration), qm1)
                   /\ UNCHANGED <<returned, raised>>
              ELSE /\ iteration' = << >>
                   /\ quoteMap' = qm1
                   /\ quoteUpdates' = << >>
                   /\ pc' = "done"
                   /\ UNCHANGED calls
                   /\ IF CleanThrows(qm1)
                      THEN /\ raised' = "TypeError"
                           /\ UNCHANGED returned
                      ELSE /\ returned' = FinishRoutes(rin.tradeAmount,
                                              rin.amountSpecifiedIsInput, Options, qm1)
                           /\ UNCHANGED raised
    /\ UNCHANGED <<rin, world>>
    /\ UNCHANGED qvars
    /\ UNCHANGED pvars
    /\ UNCHANGED ivars
    /\ UNCHANGED gen

RNext == FindBestRoutes \/ ListPoolsReturn \/ ListTickArraysReturn \/ BatchReturn

SpecRouter == RInit /\ [][RNext]_vars

(***************************************************************************)
(* Claims about findBestRoutes                                              *)
(***************************************************************************)
\* the RouteQuotes that the finished call has built: the cleaned quote map
RouteQuotes ==
    LET cleaned == cleanQuoteMap(rin.tradeAmount, rin.amountSpecifiedIsInput, quoteMap)
    IN  UNION {Range(cleaned[p]) : p \in DOMAIN cleaned}

\* the RouteQuotes that are members of a returned split set
ReturnedQuotes == UNION {Range(returned[i].quotes) : i \in DOMAIN returned}

RECURSIVE SumFirstHopIn(_)
SumFirstHopIn(qs) ==
    IF qs = << >> THEN 0
    ELSE Head(qs).calculatedHops[1].amountIn + SumFirstHopIn(Tail(qs))

RECURSIVE SumLastHopOut(_)
SumLastHopOut(qs) ==
    IF qs = << >> THEN 0
    ELSE Head(qs).calculatedHops[Len(Head(qs).calculatedHops)].amountOut
             + SumLastHopOut(Tail(qs))

\* C2: every RouteQuote that findBestRoutes builds, at every percent of the
\* generated list (those below 100 too) and for both values of
\* amountSpecifiedIsInput, has amountIn equal to its first hop's amountIn and
\* amountOut equal to its last hop's amountOut
C2_RouteQuoteAmounts ==
    pc = "done" =>
        \A q \in RouteQuotes :
            /\ q.amountIn = q.calculatedHops[1].amountIn
            /\ q.amountOut = q.calculatedHops[Len(q.calculatedHops)].amountOut

\* C3: every SplitResult that findBestRoutes returns, a ranked split set or a
\* single-hop 100% baseline entry, has member percents summing to exactly 100,
\* totalIn equal to the sum of its members' first-hop amountIn and totalOut
\* equal to the sum of its members' last-hop amountOut
C3_SplitResultTotals ==
    pc = "done" =>
        \A i \in DOMAIN returned :
            /\ returned[i].percent = 100
            /\ SumPercent(returned[i].quotes) = 100
            /\ returned[i].totalIn = SumFirstHopIn(returned[i].quotes)
            /\ returned[i].totalOut = SumLastHopOut(returned[i].quotes)

\* hop g of a route is quoted after its hop h
QuotedAfter(h, g) == IF rin.amountSpecifiedIsInput THEN g > h ELSE g < h

\* the batches whose quotes have arrived
ArrivedCalls ==
    {i \in DOMAIN calls :
        /\ calls[i].op = "batchSwapQuoteByToken"
        /\ i < Len(calls) \/ pc = "done"}

\* the (percent, routeIndex) pairs of which some hop's quote failed
FailedPairs == {<<f.percent, f.routeIndex>> : f \in quoteErrors}

\* C8: when the swap quote of a hop of a (percent, route) pair fails,
\* findBestRoutes does not raise, the hop's slot stays empty, no later hop of
\* the pair is requested and the pair is in no returned split set; every hop
\* quoted for a pair that had no failure is stored with the amount it was
\* requested for, and at the end such a pair is a complete RouteQuote
C8_FailedHopDropsPair ==
    /\ \A f \in quoteErrors :
          /\ raised = "none"
          /\ ~quoteMap[f.percent][f.routeIndex + 1].calculatedHops[f.hopIndex + 1].filled
          /\ \A i \in DOMAIN calls :
                (calls[i].op = "batchSwapQuoteByToken" /\ QuotedAfter(f.hopIndex, calls[i].hop))
                    => <<f.percent, f.routeIndex>> \notin calls[i].pairs
          /\ \A q \in ReturnedQuotes :
                ~(q.percent = f.percent /\ q.route = rin.pairRoutes[f.routeIndex + 1])
    /\ \A i \in ArrivedCalls : \A pr \in calls[i].pairs \ FailedPairs :
          LET slot == quoteMap[pr[1]][pr[2] + 1]
              hop == slot.calculatedHops[calls[i].hop + 1]
              k == CHOOSE k \in DOMAIN Percentages.percents : Percentages.percents[k] = pr[1]
              specified == IF rin.amountSpecifiedIsInput THEN hop.amountIn ELSE hop.amountOut
          IN  /\ hop.filled
              /\ hop.percent = pr[1]
              /\ StartingRouteEval(slot.route, calls[i].hop, rin.amountSpecifiedIsInput)
                    => specified = Percentages.amounts[k]
              /\ pc = "done" =>
                    /\ IsComplete(slot)
                    /\ \E q \in RouteQuotes : q.percent = pr[1] /\ q.route = slot.route

\* a two-hop route whose first quoted hop failed at one percent and that is in
\* a returned split set at another percent, next to a route without failures
C8_Witness ==
    /\ pc = "done"
    /\ \E f \in quoteErrors :
          LET route == rin.pairRoutes[f.routeIndex + 1]
          IN  /\ Len(route) = 2
              /\ StartingRouteEval(route, f.hopIndex, rin.amountSpecifiedIsInput)
              /\ \E q \in ReturnedQuotes : q.route = route /\ q.percent # f.percent
              /\ \E q \in ReturnedQuotes : q.route # route

\* the swap-quote failures that are arithmetic errors
ArithmeticErrors == {"ArithmeticOverflow", "DivideByZero"}

\* C9: once the hops have been quoted, findBestRoutes raises exactly when the
\* result set is empty and at least one swap-quote failure was an arithmetic
\* error; an empty result whose failures are all infeasible routes is returned
\* without raising
C9_RaisesOnArithmeticError ==
    (pc = "done" /\ quoteMap # << >>) =>
        (raised # "none" <=>
            /\ returned = << >>
            /\ \E f \in quoteErrors : f.err \in ArithmeticErrors)

\* the pools for which the fetcher has no pool account or no tick array
Unfound == {a \in PoolAddrs : world[a] \in {"missing", "missingTickArray"}}

\* C10: when the fetcher has no data for a pool or a tick array of some
\* candidate route, findBestRoutes does not raise and every member of a returned
\* split set is a route whose pools and tick arrays were all found, quoted on
\* those pools
C10_MissingAccountsDropRoutes ==
    (Unfound \cap PoolsOf(rin.pairRoutes) # {}) =>
        /\ raised = "none"
        /\ \A q \in ReturnedQuotes :
              /\ Range(q.route) \cap Unfound = {}
              /\ \A h \in DOMAIN q.calculatedHops :
                    /\ q.calculatedHops[h].filled
                    /\ q.calculatedHops[h].whirlpool \notin Unfound

\* a call with a missing pool on one route and a missing tick array on another
\* that returns a split set of a third route
C10_Witness ==
    /\ pc = "done"
    /\ returned # << >>
    /\ \E a, b \in PoolsOf(rin.pairRoutes) :
          /\ world[a] = "missing"
          /\ world[b] = "missingTickArray"
          /\ \E i, j \in DOMAIN rin.pairRoutes :
                i # j /\ a \in Range(rin.pairRoutes[i]) /\ b \in Range(rin.pairRoutes[j])

\* C11: the list that findBestRoutes returns holds at most numTopRoutes split
\* sets, whatever the candidate routes and the options
C11_AtMostNumTopRoutes ==
    pc = "done" => Len(returned) <= Options.numTopRoutes

\* the objective of a split set: smaller is better
Objective(routeSet) ==
    IF rin.amountSpecifiedIsInput THEN -routeSet.totalOut ELSE routeSet.totalIn

\* the quote map of the finished call after pruning
PrunedQuotes ==
    pruneQuoteMap(cleanQuoteMap(rin.tradeAmount, rin.amountSpecifiedIsInput, quoteMap),
                  Options.numTopPartialQuotes, rin.amountSpecifiedIsInput)

\* the candidate routes of one hop whose 100% quote completed
CompletedSingleHops ==
    IF pc = "done" /\ raised = "none" /\ 100 \in DOMAIN quoteMap
    THEN {r \in DOMAIN rin.pairRoutes :
             /\ Len(rin.pairRoutes[r]) = 1
             /\ quoteMap[100][r].calculatedHops[1].filled}
    ELSE {}

\* the result has the baseline entry of candidate route r
HasBaseline(r) ==
    \E i \in DOMAIN returned :
        /\ Len(returned[i].quotes) = 1
        /\ returned[i].quotes[1].route = rin.pairRoutes[r]
        /\ returned[i].quotes[1].percent = 100
        /\ returned[i].percent = 100
        /\ returned[i].totalIn = quoteMap[100][r].calculatedHops[1].amountIn
        /\ returned[i].totalOut = quoteMap[100][r].calculatedHops[1].amountOut

\* C12: every candidate route of one hop whose 100% quote completed is in the
\* result as a one-member split set of percent 100 with the hop's amountIn and
\* amountOut as totals, also when pruning removed the route or it is not among
\* the numTopRoutes best ranked sets
C12_BaselineAlwaysReturned ==
    \A r \in CompletedSingleHops : HasBaseline(r)

\* a one-hop route that pruning removed from the 100% quotes and that the
\* result still holds, in a result longer than numTopRoutes
C12_Witness ==
    /\ \E r \in CompletedSingleHops :
          /\ \A i \in DOMAIN PrunedQuotes[100] :
                PrunedQuotes[100][i].route # rin.pairRoutes[r]
          /\ HasBaseline(r)
    /\ Len(returned) > Options.numTopRoutes

\* C13: the returned list is ordered by the objective as a whole: totalOut
\* never increases along it when the amount is the input, totalIn never
\* decreases when it is the output; the baseline entries are sorted in with the
\* ranked sets
C13_GloballySorted ==
    pc = "done" =>
        \A i, j \in DOMAIN returned :
            i < j =>
                IF rin.amountSpecifiedIsInput
                THEN returned[i].totalOut >= returned[j].totalOut
                ELSE returned[i].totalIn <= returned[j].totalIn

\* a result in which a split of two routes stands between two baseline entries
\* of strictly different objective
C13_Witness ==
    /\ pc = "done"
    /\ \E i, j, k \in DOMAIN returned :
          /\ i < j /\ j < k
          /\ Len(returned[i].quotes) = 1 /\ Len(returned[i].quotes[1].route) = 1
          /\ Len(returned[j].quotes) = 2
          /\ Len(returned[k].quotes) = 1 /\ Len(returned[k].quotes[1].route) = 1
          /\ Objective(returned[i]) < Objective(returned[j])
          /\ Objective(returned[j]) < Objective(returned[k])

\* C17: a call whose percentIncrement does not divide 100 is rejected: it
\* raises, and no swap quote is requested for its percent list, which lacks 100
C17_IncrementMustDivide100 ==
    (/\ rin.hasRoutes
     /\ rin.tradeAmount # 0
     /\ 100 % Options.percentIncrement # 0) =>
        /\ \A i \in DOMAIN calls : calls[i].op # "batchSwapQuoteByToken"
        /\ pc = "done" => raised # "none"

(***************************************************************************)
(* Claims about the validation and the rounding of the liquidity quotes     *)
(***************************************************************************)
ByInputTokenCall == qop \in {"ByInputToken_PriceSlippage", "ByInputToken"}

\* the messages of the three invariant() checks
InvariantMessages ==
    {"tickLowerIndex is out of bounds.",
     "tickUpperIndex is out of bounds.",
     "input token mint does not match any tokens in the provided pool."}

\* C14: a by-input-token quote on a tick range with tickLowerIndex >=
\* tickUpperIndex is rejected with a validation error (InvalidTickRange), no
\* quote is returned
C14_RejectsInvalidTickRange ==
    (ByInputTokenCall /\ qparam.tickLowerIndex >= qparam.tickUpperIndex) =>
        qres.err \in InvariantMessages \cup {"InvalidTickRange"}

\* C15: both by-input-token entry points raise a validation error and return
\* no quote when tickLowerIndex or tickUpperIndex is outside
\* [MIN_TICK, MAX_TICK] or the input mint is neither tokenMintA nor tokenMintB,
\* whatever inputTokenAmount is, zero included
C15_ValidationBeforeQuote ==
    (/\ ByInputTokenCall
     /\ \/ ~checkTickInBounds(qparam.tickLowerIndex)
        \/ ~checkTickInBounds(qparam.tickUpperIndex)
        \/ qparam.inputTokenMint \notin {qparam.tokenMintA, qparam.tokenMintB}) =>
        /\ qres.err \in InvariantMessages
        /\ qres = QuoteError(qres.err)

\* a zero amount of a foreign mint, and a zero amount on a tick beyond the
\* bounds, are rejected
C15_Witness ==
    /\ ByInputTokenCall
    /\ qparam.inputTokenAmount = 0
    /\ \/ /\ ValidPosition
          /\ qparam.inputTokenMint = "mintX"
          /\ qres.err = "input token mint does not match any tokens in the provided pool."
       \/ /\ qparam.tickUpperIndex > MaxTick
          /\ checkTickInBounds(qparam.tickLowerIndex)
          /\ qres.err = "tickUpperIndex is out of bounds."

\* C16: with ticks in bounds and a matching mint, the price-slippage quote of
\* inputTokenAmount = 0 and the by-liquidity quote of liquidity = 0 are the
\* all-zero quote and do not raise; no public entry point raises 'liquidity
\* must be greater than 0'
C16_ZeroInputZeroQuote ==
    /\ (/\ qop = "ByInputToken_PriceSlippage"
        /\ ValidationError(qparam) = "none"
        /\ qparam.inputTokenAmount = 0) => qres = ZeroQuote
    /\ (/\ qop = "ByLiquidity"
        /\ checkTickInBounds(qparam.tickLowerIndex)
        /\ checkTickInBounds(qparam.tickUpperIndex)
        /\ qparam.liquidity = 0) => qres = ZeroQuote
    /\ qres.err # "liquidity must be greater than 0"

\* a by-liquidity call with liquidity = 0 on a position in bounds
C16_Witness ==
    /\ qop = "ByLiquidity"
    /\ ValidPosition
    /\ qparam.liquidity = 0
    /\ qres = ZeroQuote

\* a by-input-token call of a positive token-A amount on an in-range position
\* whose sqrt-price lies below the upper edge
InRangeTokenA ==
    /\ ByInputTokenCall
    /\ ValidPosition
    /\ qparam.inputTokenMint = qparam.tokenMintA
    /\ qparam.inputTokenAmount > 0
    /\ qparam.tickLowerIndex <= qparam.tickCurrentIndex
    /\ qparam.tickCurrentIndex < qparam.tickUpperIndex
    /\ qparam.sqrtPrice < SqrtUpper

\* C18 as claimed: for an in-range position and a token-A amount A the
\* returned tokenEstA = ceil(A_from_L(L, sqrtPrice, sqrtP(upper))), with
\* L = L_from_A(A, sqrtPrice, sqrtP(upper)), differs from A by at most 1
C18_ReversibleWithinOne ==
    InRangeTokenA =>
        /\ qres.err = "none"
        /\ qres.tokenEstA - qparam.inputTokenAmount <= 1
        /\ qparam.inputTokenAmount - qres.tokenEstA <= 1

\* C18 amended: for an in-range position and a token-A amount A, tokenEstA
\* never exceeds A and falls short of A by less than
\* ceil(A_from_L(1, sqrtPrice, sqrtP(upper))), the token-A amount of one unit
\* of liquidity
C18_ReversibleWithinOneLiquidityUnit ==
    InRangeTokenA =>
        /\ qres.err = "none"
        /\ qres.tokenEstA <= qparam.inputTokenAmount
        /\ qparam.inputTokenAmount - qres.tokenEstA
               < getTokenAFromLiquidity(1, qparam.sqrtPrice, SqrtUpper, TRUE)

\* an in-range quote whose tokenEstA is 2 or more below the amount
C18_Witness ==
    /\ InRangeTokenA
    /\ qres.err = "none"
    /\ qparam.inputTokenAmount - qres.tokenEstA >= 2

(***************************************************************************)
(* Claims about the order of findBestRoutes' external calls                 *)
(***************************************************************************)
\* the (percent, routeIndex) pairs whose hop h can be quoted from quote map qm
Quotable(h, qm) ==
    {pr \in Range(Percentages.percents) \X (0..(Len(rin.pairRoutes) - 1)) :
        LET route == rin.pairRoutes[pr[2] + 1]
            before == IF rin.amountSpecifiedIsInput THEN h - 1 ELSE h + 1
        IN  /\ h < Len(route)
            /\ \/ StartingRouteEval(route, h, rin.amountSpecifiedIsInput)
               \/ HopAt(qm[pr[1]][pr[2] + 1].calculatedHops, before).filled}

\* C20: in one findBestRoutes call listPools is called once, then
\* listTickArrays once, then one batch of swap quotes per hop index, exactly
\* maxRouteLength of them, ascending when the amount is the input and descending
\* otherwise; a batch holds every route and percent that reaches its hop, and
\* its requests carry the amounts that the batch before it put into quoteMap
C20_CallOrder ==
    (rin.hasRoutes /\ rin.pairRoutes # << >>) =>
        LET n == Len(calls)
            m == MaxRouteLength(rin.pairRoutes)
        IN  /\ n >= 1 => calls[1].op = "listPools"
            /\ n >= 2 => calls[2].op = "listTickArrays"
            /\ n <= 2 + m
            /\ \A i \in 3..n :
                  /\ calls[i].op = "batchSwapQuoteByToken"
                  /\ calls[i].hop = IF rin.amountSpecifiedIsInput THEN i - 3 ELSE m + 2 - i
            /\ pc = "idle" => n = 0
            /\ pc = "listPools" => n = 1
            /\ pc = "listTickArrays" => n = 2
            /\ pc = "batch" =>
                  /\ n >= 3
                  /\ calls[n].size = Len(quoteUpdates)
                  /\ calls[n].pairs = Quotable(calls[n].hop, quoteMap)
                  /\ \A i \in DOMAIN quoteUpdates :
                        LET u == quoteUpdates[i]
                            slot == quoteMap[u.percent][u.routeIndex + 1]
                        IN  /\ u.hopIndex = calls[n].hop
                            /\ ~StartingRouteEval(slot.route, u.hopIndex,
                                                  rin.amountSpecifiedIsInput) =>
                                  IF rin.amountSpecifiedIsInput
                                  THEN /\ slot.calculatedHops[u.hopIndex].filled
                                       /\ u.request.tokenAmount
                                              = slot.calculatedHops[u.hopIndex].amountOut
                                  ELSE /\ slot.calculatedHops[u.hopIndex + 2].filled
                                       /\ u.request.tokenAmount
                                              = slot.calculatedHops[u.hopIndex + 2].amountIn
            /\ (pc = "done" /\ rin.tradeAmount # 0) => n = 2 + m

\* an output-specified call on routes of one and two hops that has returned
\* after the batches of hop 1 and hop 0, in this order
C20_Witness ==
    /\ pc = "done"
    /\ rin.hasRoutes
    /\ ~rin.amountSpecifiedIsInput
    /\ Len(rin.pairRoutes) >= 2
    /\ Len(calls) = 4
    /\ calls[3].hop = 1 /\ calls[3].size < calls[4].size
    /\ calls[4].hop = 0
    /\ returned # << >>

(***************************************************************************)
(* Two findBestRoutes calls on the same walks, pools and fetcher, resumed   *)
(* one await at a time in any order.  The walks and DEFAULT_ROUTING_OPTIONS *)
(* are objects that both calls hold by reference; a call's quoteMap,        *)
(* iteration and quoteUpdates are its own locals.                           *)
(***************************************************************************)
\* walks[getRouteId(inputTokenMint, outputTokenMint)] of the two calls: a
\* two-hop route stored from the output token's side, and a one-hop route
SharedWalks == << <<"P4", "P3">>, <<"P1">> >>

InitialHeap == [walks |-> SharedWalks, defaults |-> DEFAULT_ROUTING_OPTIONS]

\* { ...DEFAULT_ROUTING_OPTIONS, ...userRoutingOptions } on the shared object
MergeOptionsOf(defaults, user) ==
    [k \in DOMAIN defaults |-> IF k \in DOMAIN user THEN user[k] ELSE defaults[k]]

\* a call that has not started
NewInvocation(tradeAmount, amountSpecifiedIsInput, userRoutingOptions) ==
    [tradeAmount |-> tradeAmount,
     amountSpecifiedIsInput |-> amountSpecifiedIsInput,
     userRoutingOptions |-> userRoutingOptions,
     pc |-> "idle", iteration |-> << >>, quoteMap |-> << >>, quoteUpdates |-> << >>,
     returned |-> << >>]

\* the route array after orderedRoute was computed from it, were the reversal
\* done on the array itself
RouteAfterOrdering_ReversedInPlace(route) == OrderedRoute(route)

\* the route array after orderedRoute was computed from it: [...route] is a
\* copy, the array in walks is as before
RouteAfterOrdering(route) == route

\* the hop that the call quotes next when resumed, -1 when it builds no requests
NextHop(c, h) ==
    IF c.pc = "listTickArrays"
    THEN Head(HopIteration(MaxRouteLength(h.walks), c.amountSpecifiedIsInput))
    ELSE IF c.pc = "batch" /\ Tail(c.iteration) # << >> THEN Head(Tail(c.iteration))
    ELSE -1

\* the shared objects after call c ran from its current await to the next
HeapAfter(c, h) ==
    IF NextHop(c, h) = -1 THEN h
    ELSE [h EXCEPT !.walks =
             [r \in DOMAIN h.walks |->
                 IF SkipsHop(h.walks[r], NextHop(c, h), c.amountSpecifiedIsInput)
                 THEN h.walks[r]
                 ELSE RouteAfterOrdering(h.walks[r])]]

\* call c after it ran from its current await to the next
Resume(c, h, w) ==
    LET routingOptions == MergeOptionsOf(h.defaults, c.userRoutingOptions)
        pa == generatePercentageAmounts(c.tradeAmount, routingOptions.percentIncrement)
        pairRoutes == h.walks
        Build(iter, qm) ==
            LET b == buildQuoteUpdateRequests(pairRoutes, pa.percents, pa.amounts,
                                              Head(iter), c.amountSpecifiedIsInput, qm)
            IN  [c EXCEPT !.iteration = iter, !.quoteMap = b.quoteMap,
                          !.quoteUpdates = b.quoteUpdates, !.pc = "batch"]
    IN  CASE c.pc = "idle" ->
                 IF c.tradeAmount = 0 THEN [c EXCEPT !.pc = "done"]
                 ELSE [c EXCEPT !.pc = "listPools"]
          [] c.pc = "listPools" -> [c EXCEPT !.pc = "listTickArrays"]
          [] c.pc = "listTickArrays" ->
                 Build(HopIteration(MaxRouteLength(pairRoutes), c.amountSpecifiedIsInput),
                       c.quoteMap)
          [] c.pc = "batch" ->
                 LET quoteParams == batchSwapQuoteByToken(
                                        [i \in DOMAIN c.quoteUpdates |->
                                            c.quoteUpdates[i].request], w)
                     qm1 == updateQuoteMap(c.quoteUpdates, quoteParams, c.quoteMap, w)
                 IN  IF Tail(c.iteration) # << >>
                     THEN Build(Tail(c.iteration), qm1)
                     ELSE [c EXCEPT !.iteration = << >>, !.quoteMap = qm1,
                                    !.quoteUpdates = << >>, !.pc = "done",
                                    !.returned = FinishRoutes(c.tradeAmount,
                                                     c.amountSpecifiedIsInput,
                                                     routingOptions, qm1)]

\* the arguments of the two calls
PairOptions == {DEFAULT_ROUTING_OPTIONS, [percentIncrement |-> 50]}

PInit ==
    /\ heap = InitialHeap
    /\ \E in1, in2 \in BOOLEAN, u1, u2 \in PairOptions :
          invocations = << NewInvocation(MaxTradeAmount, in1, u1),
                           NewInvocation(MaxTradeAmount - 1, in2, u2) >>
    /\ schedule = << >>
    /\ world \in {w \in [PoolAddrs -> {"ok", "shallow", "missing"}] :
                     w["P1"] = "ok" /\ w["P2"] = "ok" /\ w["P4"] = "ok"}
    /\ rin = [called |-> FALSE]
    /\ pc = "idle"
    /\ iteration = << >>
    /\ quoteMap = << >>
    /\ quoteUpdates = << >>
    /\ calls = << >>
    /\ quoteErrors = {}
    /\ returned = << >>
    /\ raised = "none"
    /\ QuoteIdle
    /\ InitPoolIdle
    /\ GenerateIdle

\* the event loop resumes call i at the await it is suspended at
ResumeInvocation ==
    \E i \in DOMAIN invocations :
        /\ invocations[i].pc # "done"
        /\ invocations' = [invocations EXCEPT ![i] = Resume(invocations[i], heap, world)]
        /\ heap' = HeapAfter(invocations[i], heap)
        /\ schedule' = Append(schedule, i)
        /\ UNCHANGED rvars
        /\ UNCHANGED qvars
        /\ UNCHANGED ivars
        /\ UNCHANGED gen

PNext == ResumeInvocation

SpecPair == PInit /\ [][PNext]_vars

\* the call run alone, from its start to its return, on the shared objects h
RECURSIVE RunAlone(_, _, _)
RunAlone(c, h, w) ==
    IF c.pc = "done" THEN c ELSE RunAlone(Resume(c, h, w), HeapAfter(c, h), w)

\* C19: two findBestRoutes calls that interleave at their awaits each return
\* what they return when run alone, and the walks and DEFAULT_ROUTING_OPTIONS
\* they share are never modified
C19_InterleavedCallsIndependent ==
    /\ heap = InitialHeap
    /\ \A i \in DOMAIN invocations :
          invocations[i].pc = "done" =>
              invocations[i].returned =
                  RunAlone(NewInvocation(invocations[i].tradeAmount,
                                         invocations[i].amountSpecifiedIsInput,
                                         invocations[i].userRoutingOptions),
                           InitialHeap, world).returned

\* an input-specified and an output-specified call, resumed in strict
\* alternation, that have both returned split sets
C19_Witness ==
    /\ DOMAIN invocations = {1, 2}
    /\ invocations[1].pc = "done" /\ invocations[1].returned # << >>
    /\ invocations[2].pc = "done" /\ invocations[2].returned # << >>
    /\ invocations[1].amountSpecifiedIsInput # invocations[2].amountSpecifiedIsInput
    /\ \A k \in 1..(Len(schedule) - 1) : schedule[k] # schedule[k + 1]

(***************************************************************************)
(* Further claims about findBestRoutes (checked under SpecRouter)           *)
(***************************************************************************)
\* the amount that generatePercentageAmounts gives to a percent
AmountOfPercent(percent) ==
    LET i == CHOOSE i \in DOMAIN Percentages.percents : Percentages.percents[i] = percent
    IN  Percentages.amounts[i]

\* C23: in every completed RouteQuote the hops are chained.  Input-specified:
\* hop 0 trades the percent's amount of inputTokenMint and every later hop
\* takes in the amount and the mint that the hop before it gives out.
\* Output-specified: the last hop gives out the percent's amount of
\* outputTokenMint and every earlier hop gives out the amount and the mint
\* that the hop after it takes in
C23_HopsChained ==
    (pc = "done" /\ raised = "none") =>
        \A q \in RouteQuotes :
            LET hops == q.calculatedHops
                k == Len(hops)
            IN  IF rin.amountSpecifiedIsInput
                THEN /\ hops[1].amountIn = AmountOfPercent(q.percent)
                     /\ hops[1].inputMint = inputTokenMint
                     /\ \A n \in 2..k :
                           /\ hops[n].amountIn = hops[n - 1].amountOut
                           /\ hops[n].inputMint = hops[n - 1].outputMint
                ELSE /\ hops[k].amountOut = AmountOfPercent(q.percent)
                     /\ hops[k].outputMint = outputTokenMint
                     /\ \A n \in 1..(k - 1) :
                           /\ hops[n].amountOut = hops[n + 1].amountIn
                           /\ hops[n].outputMint = hops[n + 1].inputMint

\* an output-specified call has completed a two-hop quote of a route given in
\* reverse orientation, at a percent below 100
C23_Witness ==
    /\ pc = "done" /\ raised = "none"
    /\ ~rin.amountSpecifiedIsInput
    /\ \E q \in RouteQuotes :
          /\ q.route = <<"P4", "P3">>
          /\ q.percent < 100
          /\ q.calculatedHops[1].amountIn > q.calculatedHops[2].amountOut

\* the complete RouteQuotes of the finished call, by percent
CleanedQuotes == cleanQuoteMap(rin.tradeAmount, rin.amountSpecifiedIsInput, quoteMap)

\* C25: after pruneQuoteMap each percent holds min(n, numTopPartialQuotes) of
\* its n complete RouteQuotes, every retained quote is at least as good as
\* every discarded one (amountOut larger or equal when input-specified,
\* amountIn smaller or equal otherwise), and what a percent retains depends on
\* that percent's quotes alone
C25_PruneKeepsBest ==
    (pc = "done" /\ raised = "none") =>
        \A p \in DOMAIN CleanedQuotes :
            LET all == Range(CleanedQuotes[p])
                retained == Range(PrunedQuotes[p])
                discarded == all \ retained
                n == Len(CleanedQuotes[p])
                alone == pruneQuoteMap([x \in {p} |-> CleanedQuotes[p]],
                                       Options.numTopPartialQuotes,
                                       rin.amountSpecifiedIsInput)
            IN  /\ p \in DOMAIN PrunedQuotes
                /\ Len(PrunedQuotes[p]) = BNMin(n, Options.numTopPartialQuotes)
                /\ Cardinality(retained) = Len(PrunedQuotes[p])
                /\ retained \subseteq all
                /\ \A a \in retained : \A b \in discarded :
                      IF rin.amountSpecifiedIsInput THEN a.amountOut >= b.amountOut
                      ELSE a.amountIn <= b.amountIn
                /\ PrunedQuotes[p] = alone[p]

\* a percent below 100 had three complete quotes, of which the best was kept
\* and two worse ones were discarded
C25_Witness ==
    /\ pc = "done" /\ raised = "none"
    /\ ~rin.amountSpecifiedIsInput
    /\ \E p \in DOMAIN CleanedQuotes :
          /\ p < 100
          /\ Len(CleanedQuotes[p]) = 3
          /\ Len(PrunedQuotes[p]) = 1
          /\ \E b \in Range(CleanedQuotes[p]) : b.amountIn > PrunedQuotes[p][1].amountIn

\* C26: in every RouteQuote that findBestRoutes returns, calculatedHops is as
\* long as route and calculatedHops[i].whirlpool is route[i] for every i: route
\* lists the pools in the order of the hops, from input to output, also for a
\* candidate route that was supplied in reverse orientation
C26_RouteListsHopsInOrder ==
    pc = "done" =>
        \A q \in ReturnedQuotes :
            /\ Len(q.calculatedHops) = Len(q.route)
            /\ \A i \in DOMAIN q.route : q.calculatedHops[i].whirlpool = q.route[i]

\* the amount of the specified side that the members of a split set trade:
\* what goes into their first hops, or what comes out of their last hops
SpecifiedAmountOf(routeSet) ==
    IF rin.amountSpecifiedIsInput THEN SumFirstHopIn(routeSet.quotes)
    ELSE SumLastHopOut(routeSet.quotes)

\* C27: for every split set returned the amounts fed into the first hops of
\* its members (input-specified) or coming out of their last hops
\* (output-specified) sum to exactly tradeAmount
C27_SplitAmountsSumToTradeAmount ==
    pc = "done" =>
        \A i \in DOMAIN returned : SpecifiedAmountOf(returned[i]) = rin.tradeAmount

\* C27 as amended: each member trades floor(tradeAmount * percent / 100) on
\* the specified side, so the members' amounts sum to at most tradeAmount and
\* to more than tradeAmount minus the number of members
C27_SplitAmountsWithinMembersOfTradeAmount ==
    pc = "done" =>
        \A i \in DOMAIN returned :
            /\ SpecifiedAmountOf(returned[i]) <= rin.tradeAmount
            /\ SpecifiedAmountOf(returned[i]) > rin.tradeAmount - Len(returned[i].quotes)
            /\ \A j \in DOMAIN returned[i].quotes :
                  LET q == returned[i].quotes[j]
                      traded == IF rin.amountSpecifiedIsInput
                                THEN q.calculatedHops[1].amountIn
                                ELSE q.calculatedHops[Len(q.calculatedHops)].amountOut
                  IN  traded = (rin.tradeAmount * q.percent) \div 100

\* a split set of two members has been returned whose amounts sum to one less
\* than tradeAmount
C27_Witness ==
    /\ pc = "done"
    /\ \E i \in DOMAIN returned :
          /\ Len(returned[i].quotes) = 2
          /\ SpecifiedAmountOf(returned[i]) = rin.tradeAmount - 1

\* C30: findBestRoutes returns an empty list, raises nothing and requests no
\* swap quote when there is nothing to route: the token pair has no entry in
\* walks, its entry is an empty list of routes, or tradeAmount is zero
C30_NothingToRouteReturnsEmpty ==
    (/\ pc = "done"
     /\ \/ ~rin.hasRoutes
        \/ rin.pairRoutes = << >>
        \/ rin.tradeAmount = 0) =>
        /\ returned = << >>
        /\ raised = "none"
        /\ \A i \in DOMAIN calls : calls[i].op # "batchSwapQuoteByToken"

(***************************************************************************)
(* A further claim about the liquidity quotes (checked under SpecQuote)     *)
(***************************************************************************)
\* C28: for every quote of increaseLiquidityQuoteByLiquidityWithParams with
\* liquidity L on a tick range (tickLower, tickUpper), at any current price
\* and slippage, tokenMaxA is at most ceil(A(L, sqrtP(tickLower),
\* sqrtP(tickUpper))) and tokenMaxB at most ceil(B(L, sqrtP(tickLower),
\* sqrtP(tickUpper))): what the position holds when it is all in that token
C28_MaxWithinWholeRange ==
    (/\ qop = "ByLiquidity"
     /\ qres.err = "none"
     /\ checkTickInBounds(qparam.tickLowerIndex)
     /\ checkTickInBounds(qparam.tickUpperIndex)
     /\ qparam.tickLowerIndex < qparam.tickUpperIndex) =>
        /\ qres.tokenMaxA <=
               getTokenAFromLiquidity(qparam.liquidity, SqrtLower, SqrtUpper, TRUE)
        /\ qres.tokenMaxB <=
               getTokenBFromLiquidity(qparam.liquidity, SqrtLower, SqrtUpper, TRUE)

(***************************************************************************)
(* generatePercentageAmounts as the loop it is: one step per iteration.     *)
(* minPercent is a JavaScript number, here a fraction num / den.            *)
(***************************************************************************)
\* bits of the scaled-down u64 (64 in the program)
U64Bits == 8
\* iterations of the loop that are told apart; a loop that goes on beyond
\* them is followed modulo 2
MaxIterations == 12

U64_MAX == 2^U64Bits - 1

\* i <= 100 / minPercent, where 100 / 0 is Infinity
LoopCondition(i, minPercent) ==
    IF minPercent.num = 0 THEN TRUE
    ELSE IF minPercent.num > 0 THEN i * minPercent.num <= 100 * minPercent.den
    ELSE i * minPercent.num >= 100 * minPercent.den

\* new u64(i * minPercent): bn.js keeps the integer part of a number
NewU64(i, minPercent) == BNDiv(i * minPercent.num, minPercent.den)

\* lines 360-361 with a product that wraps at the width of a u64
LoopBody_MulWraps(g) ==
    [g EXCEPT !.percents = Append(@, <<g.i * g.minPercent.num, g.minPercent.den>>),
              !.amounts = Append(@, BNDiv((g.inputAmount * NewU64(g.i, g.minPercent))
                                              % 2^U64Bits, 100)),
              !.i = @ + 1]

\* lines 360-361 and the i++ of line 359
LoopBody(g) ==
    [g EXCEPT !.percents = Append(@, <<g.i * g.minPercent.num, g.minPercent.den>>),
              !.amounts = Append(@, BNDiv(g.inputAmount * NewU64(g.i, g.minPercent), 100)),
              !.i = @ + 1]

\* the values of minPercent: divisors of 100, other integers, a fraction, zero
\* and a negative number
MinPercents ==
    {[num |-> n, den |-> 1] : n \in {100, 50, 25, 20, 10, 30, 40, 0, -20}}
        \cup {[num |-> 25, den |-> 2], [num |-> 33, den |-> 2]}

GInit ==
    /\ \E a \in {0, 1, MaxTradeAmount - 1, MaxTradeAmount, U64_MAX - 1, U64_MAX},
          m \in MinPercents :
          /\ m.num > 0 => 100 * m.den < (MaxIterations - 1) * m.num
          /\ gen = [pc |-> "loop", inputAmount |-> a, minPercent |-> m, i |-> 1,
                    percents |-> << >>, amounts |-> << >>, beyond |-> 0]
    /\ RouterIdle
    /\ QuoteIdle
    /\ PairIdle
    /\ InitPoolIdle

\* line 359: the condition holds and the body runs once more
GenerateIteration ==
    /\ gen.pc = "loop"
    /\ LoopCondition(gen.i, gen.minPercent)
    /\ gen' = IF gen.i < MaxIterations THEN LoopBody(gen)
              ELSE [gen EXCEPT !.beyond = 1 - @]
    /\ UNCHANGED qvars
    /\ UNCHANGED rvars
    /\ UNCHANGED pvars
    /\ UNCHANGED ivars

\* lines 359 and 364: the condition fails and the arrays are returned
GenerateReturn ==
    /\ gen.pc = "loop"
    /\ ~LoopCondition(gen.i, gen.minPercent)
    /\ gen' = [gen EXCEPT !.pc = "done"]
    /\ UNCHANGED qvars
    /\ UNCHANGED rvars
    /\ UNCHANGED pvars
    /\ UNCHANGED ivars

GNext == GenerateIteration \/ GenerateReturn

SpecGenerate == GInit /\ [][GNext]_vars

\* the loop is synchronous code: while a step is possible, one is taken
SpecGenerateFair == SpecGenerate /\ WF_vars(GNext)

\* C24: for a percentIncrement p that divides 100 the percents are p, 2p, ...,
\* 100 and amounts[i] is floor(tradeAmount * percents[i] / 100): the amounts
\* are non-decreasing, the last one is tradeAmount, and the product does not
\* wrap for any u64 tradeAmount
C24_PercentageAmounts ==
    LET p == gen.minPercent.num
        n == 100 \div p
    IN  (gen.pc = "done" /\ gen.minPercent.den = 1 /\ p > 0 /\ 100 % p = 0) =>
            /\ Len(gen.percents) = n
            /\ Len(gen.amounts) = n
            /\ \A i \in 1..n :
                  /\ gen.percents[i] = <<i * p, 1>>
                  /\ gen.amounts[i] = (gen.inputAmount * (i * p)) \div 100
            /\ \A i \in 1..(n - 1) : gen.amounts[i] <= gen.amounts[i + 1]
            /\ gen.percents[n] = <<100, 1>>
            /\ gen.amounts[n] = gen.inputAmount

\* the largest u64 has been split into fifths
C24_Witness ==
    /\ gen.pc = "done"
    /\ gen.inputAmount = U64_MAX
    /\ gen.minPercent = [num |-> 20, den |-> 1]
    /\ Len(gen.amounts) = 5
    /\ gen.amounts[5] = U64_MAX
    /\ gen.amounts[1] < gen.amounts[2]

\* C29: findBestRoutes terminates for every routing-options value: the loop
\* of generatePercentageAmounts finishes for percentIncrement zero, negative
\* or not an integer
C29_PercentLoopFinishes == <>(gen.pc = "done")

\* the loop is past every iteration that is told apart, and goes on
C29_LoopGoesOn ==
    /\ gen.pc = "loop"
    /\ gen.i = MaxIterations
    /\ gen.beyond = 1
    /\ LoopCondition(gen.i, gen.minPercent)

(***************************************************************************)
(* initialize_pool_v2: the instruction of the on-chain program, and the     *)
(* test cases of its suite that call it.  A mint is named by its rank in    *)
(* PoolUtil.compareMints; a TokenBadge by the config and the mint it is for. *)
(***************************************************************************)
SqrtPriceOutOfBounds == "custom program error: 0x177b"

InvalidTokenMintOrder == "custom program error: 0x1788"

UnsupportedTokenMint == "custom program error: 0x179f"

InvalidAccountData == "invalid account data for instruction"

\* a mint as createMintV2 makes it of a TokenTrait
Trait(isToken2022, extensions, defaultAccountInitialState) ==
    [isToken2022 |-> isToken2022, extensions |-> extensions,
     defaultAccountInitialState |-> defaultAccountInitialState]

\* the extensions that the Mint account type of Anchor v0.29 does not parse
UnknownToAnchor == {"GroupPointer", "Group", "GroupMemberPointer", "GroupMember"}

\* the program's verdict on one mint of the pool
is_supported_token_mint(mint, isTokenBadgeInitialized) ==
    IF ~mint.isToken2022 THEN TRUE
    ELSE IF "FreezeAuthority" \in mint.extensions /\ ~isTokenBadgeInitialized THEN FALSE
    ELSE \A e \in mint.extensions \ {"FreezeAuthority"} :
             CASE e \in {"TransferFeeConfig", "TokenMetadata", "MetadataPointer",
                         "ConfidentialTransferMint"} -> TRUE
               [] e \in {"PermanentDelegate", "TransferHook", "MintCloseAuthority"} ->
                      isTokenBadgeInitialized
               [] e = "DefaultAccountState" ->
                      /\ isTokenBadgeInitialized
                      /\ mint.defaultAccountInitialState = "Initialized"
               [] OTHER -> FALSE

\* the program's tick of a sqrt-price: the ticks are walked upwards from the
\* lowest while the next tick's sqrt-price does not exceed p
RECURSIVE tick_index_from_sqrt_price_above(_, _)
tick_index_from_sqrt_price_above(p, t) ==
    IF t < MaxTick /\ tickIndexToSqrtPriceX64(t + 1) <= p
    THEN tick_index_from_sqrt_price_above(p, t + 1)
    ELSE t

tick_index_from_sqrt_price(p) == tick_index_from_sqrt_price_above(p, MinTick)

\* the address of a pool: config, both mints and the tick spacing
WhirlpoolPda(whirlpoolsConfig, tokenMintA, tokenMintB, tickSpacing) ==
    <<whirlpoolsConfig, tokenMintA, tokenMintB, tickSpacing>>

\* the instruction on the accounts ch: the error of the transaction, or the
\* chain with the new pool
initialize_pool_v2(ch, ix) ==
    LET mintA == ch.mints[ix.tokenMintA]
        mintB == ch.mints[ix.tokenMintB]
        pda == WhirlpoolPda(ix.whirlpoolsConfig, ix.tokenMintA, ix.tokenMintB,
                            ix.tickSpacing)
        failed(e) == [err |-> e, chain |-> ch]
    IN  IF (mintA.extensions \cup mintB.extensions) \cap UnknownToAnchor # {}
        THEN failed(InvalidAccountData)
        ELSE IF \E w \in ch.whirlpools : w.address = pda
        THEN failed("account already in use")
        ELSE IF \/ ~is_supported_token_mint(mintA, ix.tokenBadgeA \in ch.tokenBadges)
                \/ ~is_supported_token_mint(mintB, ix.tokenBadgeB \in ch.tokenBadges)
        THEN failed(UnsupportedTokenMint)
        ELSE IF ix.tokenMintA >= ix.tokenMintB
        THEN failed(InvalidTokenMintOrder)
        ELSE IF ix.initSqrtPrice < MIN_SQRT_PRICE \/ ix.initSqrtPrice > MAX_SQRT_PRICE
        THEN failed(SqrtPriceOutOfBounds)
        ELSE [err |-> "none",
              chain |-> [ch EXCEPT !.whirlpools = @ \cup
                  {[address |-> pda,
                    whirlpoolsConfig |-> ix.whirlpoolsConfig,
                    tokenMintA |-> ix.tokenMintA,
                    tokenMintB |-> ix.tokenMintB,
                    tickSpacing |-> ix.tickSpacing,
                    sqrtPrice |-> ix.initSqrtPrice,
                    tickCurrentIndex |-> tick_index_from_sqrt_price(ix.initSqrtPrice),
                    liquidity |-> 0]}]]

\* PDAUtil.getTokenBadge: the address of the TokenBadge of a mint under a config
getTokenBadge(whirlpoolsConfig, tokenMint) == <<whirlpoolsConfig, tokenMint>>

\* the accounts and arguments given to WhirlpoolIx.initializePoolV2Ix
InitPoolV2Params(whirlpoolsConfig, tokenMintA, tokenMintB, tokenBadgeA, tokenBadgeB, tickSpacing, initSqrtPrice) ==
    [whirlpoolsConfig |-> whirlpoolsConfig,
     tokenMintA |-> tokenMintA,
     tokenMintB |-> tokenMintB,
     tokenBadgeA |-> tokenBadgeA,
     tokenBadgeB |-> tokenBadgeB,
     tickSpacing |-> tickSpacing,
     initSqrtPrice |-> initSqrtPrice]

\* fetcher.getPool
getPool(ch, address) == {w \in ch.whirlpools : w.address = address}

(***************************************************************************)
(* The "v1 parity" cases on the sqrt-price                                  *)
(***************************************************************************)
\* tokenTraitVariations: each of the two mints a Token or a Token-2022 mint
tokenTraitVariations ==
    {[tokenTraitA |-> Trait(a, {}, "none"), tokenTraitB |-> Trait(b, {}, "none")] :
        a \in BOOLEAN, b \in BOOLEAN}

\* the case tries the largest valid sqrt-price instead of the one above it
ExceedsMaxSqrtPrice_AtMax == MAX_SQRT_PRICE

\* initSqrtPrice of "fails when sqrt-price exceeds max"
ExceedsMaxSqrtPrice == MAX_SQRT_PRICE + 1

\* initSqrtPrice of "fails when sqrt-price subceeds min"
SubceedsMinSqrtPrice == MIN_SQRT_PRICE - 1

\* the cases: a pool at a sqrt-price of the valid range, and the two failures
ParityCases ==
    {[running |-> TRUE, suite |-> "v1 parity", name |-> "successfully init a Standard account",
      tokenTraits |-> v, initSqrtPrice |-> p, step |-> "start"] :
        v \in tokenTraitVariations, p \in MIN_SQRT_PRICE..MAX_SQRT_PRICE}
    \cup {[running |-> TRUE, suite |-> "v1 parity", name |-> "fails when sqrt-price exceeds max",
           tokenTraits |-> v, initSqrtPrice |-> ExceedsMaxSqrtPrice, step |-> "start"] :
             v \in tokenTraitVariations}
    \cup {[running |-> TRUE, suite |-> "v1 parity", name |-> "fails when sqrt-price subceeds min",
           tokenTraits |-> v, initSqrtPrice |-> SubceedsMinSqrtPrice, step |-> "start"] :
             v \in tokenTraitVariations}

\* buildTestPoolV2Params: a config with its fee tier and the two mints
ParityChain(tokenTraits) ==
    [mints |-> <<tokenTraits.tokenTraitA, tokenTraits.tokenTraitB>>,
     configs |-> {"config"},
     tokenBadges |-> {},
     whirlpools |-> {}]

\* what the case asserts of its transaction
ParityVerdict(c, tx) ==
    IF c.name = "successfully init a Standard account"
    THEN LET found == getPool(tx.chain, WhirlpoolPda("config", 1, 2, 64))
         IN  /\ tx.err = "none"
             /\ found # {}
             /\ \A whirlpool \in found :
                   /\ whirlpool.tokenMintA = 1
                   /\ whirlpool.tokenMintB = 2
                   /\ whirlpool.sqrtPrice = c.initSqrtPrice
                   /\ whirlpool.liquidity = 0
                   /\ whirlpool.tickCurrentIndex = sqrtPriceX64ToTickIndex(c.initSqrtPrice)
                   /\ whirlpool.tickSpacing = 64
    ELSE tx.err = SqrtPriceOutOfBounds

\* one "v1 parity" case from its setup to its assertions
RunParityCase ==
    /\ tcase.running
    /\ tcase.suite = "v1 parity"
    /\ tcase.step = "start"
    /\ LET tx == initialize_pool_v2(ParityChain(tcase.tokenTraits),
                     InitPoolV2Params("config", 1, 2, getTokenBadge("config", 1),
                                      getTokenBadge("config", 2), 64,
                                      tcase.initSqrtPrice))
       IN  /\ chain' = tx.chain
           /\ outcome' = [txs |-> <<tx.err>>,
                          verdict |-> IF ParityVerdict(tcase, tx) THEN "passed"
                                      ELSE "failed"]
    /\ tcase' = [tcase EXCEPT !.step = "done"]
    /\ UNCHANGED qvars
    /\ UNCHANGED rvars
    /\ UNCHANGED pvars
    /\ UNCHANGED gen

(***************************************************************************)
(* The "Supported Tokens" cases: runTest and checkSupported                 *)
(***************************************************************************)
\* one call of runTest
RunTestParams(supported, createTokenBadge, tokenTrait, anchorPatch) ==
    [running |-> TRUE, suite |-> "Supported Tokens", supported |-> supported,
     createTokenBadge |-> createTokenBadge, tokenTrait |-> tokenTrait,
     anchorPatch |-> anchorPatch, step |-> "start"]

\* the calls of runTest that the cases of the suite make, in the file's order
SupportedTokenCases ==
    {RunTestParams(TRUE, FALSE, Trait(FALSE, {}, "none"), FALSE),
     RunTestParams(TRUE, FALSE, Trait(FALSE, {"FreezeAuthority"}, "none"), FALSE),
     RunTestParams(TRUE, FALSE, Trait(TRUE, {"TransferFeeConfig"}, "none"), FALSE),
     RunTestParams(TRUE, FALSE, Trait(TRUE, {"TokenMetadata", "MetadataPointer"}, "none"),
                   FALSE),
     RunTestParams(TRUE, FALSE, Trait(TRUE, {"ConfidentialTransferMint"}, "none"), FALSE),
     RunTestParams(TRUE, TRUE, Trait(TRUE, {"FreezeAuthority"}, "none"), FALSE),
     RunTestParams(TRUE, TRUE, Trait(TRUE, {"PermanentDelegate"}, "none"), FALSE),
     RunTestParams(TRUE, TRUE, Trait(TRUE, {"TransferHook"}, "none"), FALSE),
     RunTestParams(TRUE, TRUE, Trait(TRUE, {"MintCloseAuthority"}, "none"), FALSE),
     RunTestParams(TRUE, TRUE, Trait(TRUE, {"DefaultAccountState"}, "Initialized"), FALSE),
     RunTestParams(FALSE, TRUE,
                   Trait(TRUE, {"FreezeAuthority", "DefaultAccountState"}, "Frozen"), FALSE),
     RunTestParams(FALSE, FALSE, Trait(TRUE, {"FreezeAuthority"}, "none"), FALSE),
     RunTestParams(FALSE, FALSE, Trait(TRUE, {"PermanentDelegate"}, "none"), FALSE),
     RunTestParams(FALSE, FALSE, Trait(TRUE, {"TransferHook"}, "none"), FALSE),
     RunTestParams(FALSE, FALSE, Trait(TRUE, {"MintCloseAuthority"}, "none"), FALSE),
     RunTestParams(FALSE, FALSE, Trait(TRUE, {"DefaultAccountState"}, "Initialized"), FALSE),
     RunTestParams(FALSE, FALSE,
                   Trait(TRUE, {"FreezeAuthority", "DefaultAccountState"}, "Frozen"), FALSE),
     RunTestParams(FALSE, TRUE, Trait(TRUE, {"InterestBearingConfig"}, "none"), FALSE),
     RunTestParams(FALSE, FALSE, Trait(TRUE, {"InterestBearingConfig"}, "none"), FALSE),
     RunTestParams(FALSE, TRUE, Trait(TRUE, {"GroupPointer"}, "none"), TRUE),
     RunTestParams(FALSE, FALSE, Trait(TRUE, {"GroupPointer"}, "none"), TRUE),
     RunTestParams(FALSE, TRUE, Trait(TRUE, {"GroupMemberPointer"}, "none"), TRUE),
     RunTestParams(FALSE, FALSE, Trait(TRUE, {"GroupMemberPointer"}, "none"), TRUE),
     RunTestParams(FALSE, TRUE, Trait(TRUE, {"NonTransferable"}, "none"), FALSE),
     RunTestParams(FALSE, FALSE, Trait(TRUE, {"NonTransferable"}, "none"), FALSE)}

\* runTest up to its first checkSupported: the mints tokenA < tokenTarget <
\* tokenB, the config with its fee tier, and the TokenBadge of tokenTarget
\* when the case wants one
RunTestChain(params) ==
    [mints |-> <<Trait(FALSE, {}, "none"), params.tokenTrait, Trait(FALSE, {}, "none")>>,
     configs |-> {"config"},
     tokenBadges |-> IF params.createTokenBadge THEN {getTokenBadge("config", 2)}
                     ELSE {},
     whirlpools |-> {}]

\* checkSupported with the two TokenBadge addresses given to the instruction
\* in each other's place
checkSupported_BadgesSwapped(ch, supported, whirlpoolsConfig, tokenMintA, tokenMintB, tickSpacing, anchorPatch) ==
    LET tokenBadgeA == getTokenBadge(whirlpoolsConfig, tokenMintA)
        tokenBadgeB == getTokenBadge(whirlpoolsConfig, tokenMintB)
        tx == initialize_pool_v2(ch,
                  InitPoolV2Params(whirlpoolsConfig, tokenMintA, tokenMintB, tokenBadgeB,
                                   tokenBadgeA, tickSpacing, tickIndexToSqrtPriceX64(0)))
        found == getPool(tx.chain, WhirlpoolPda(whirlpoolsConfig, tokenMintA, tokenMintB,
                                                tickSpacing))
    IN  [err |-> tx.err,
         chain |-> tx.chain,
         ok |-> IF supported
                THEN /\ tx.err = "none"
                     /\ found # {}
                     /\ \A whirlpoolData \in found :
                           /\ whirlpoolData.tokenMintA = tokenMintA
                           /\ whirlpoolData.tokenMintB = tokenMintB
                ELSE tx.err = (IF ~anchorPatch THEN UnsupportedTokenMint
                               ELSE InvalidAccountData)]

\* checkSupported: the pool of tokenMintA and tokenMintB is initialised at
\* tick 0, and the transaction is awaited or expected to be rejected
checkSupported(ch, supported, whirlpoolsConfig, tokenMintA, tokenMintB, tickSpacing, anchorPatch) ==
    LET tokenBadgeA == getTokenBadge(whirlpoolsConfig, tokenMintA)
        tokenBadgeB == getTokenBadge(whirlpoolsConfig, tokenMintB)
        tx == initialize_pool_v2(ch,
                  InitPoolV2Params(whirlpoolsConfig, tokenMintA, tokenMintB, tokenBadgeA,
                                   tokenBadgeB, tickSpacing, tickIndexToSqrtPriceX64(0)))
        found == getPool(tx.chain, WhirlpoolPda(whirlpoolsConfig, tokenMintA, tokenMintB,
                                                tickSpacing))
    IN  [err |-> tx.err,
         chain |-> tx.chain,
         ok |-> IF supported
                THEN /\ tx.err = "none"
                     /\ found # {}
                     /\ \A whirlpoolData \in found :
                           /\ whirlpoolData.tokenMintA = tokenMintA
                           /\ whirlpoolData.tokenMintB = tokenMintB
                ELSE tx.err = (IF ~anchorPatch THEN UnsupportedTokenMint
                               ELSE InvalidAccountData)]

\* runTest, lines 621-674: the accounts of the case are created
RunTestSetup ==
    /\ tcase.running
    /\ tcase.suite = "Supported Tokens"
    /\ tcase.step = "start"
    /\ chain' = RunTestChain(tcase)
    /\ tcase' = [tcase EXCEPT !.step = "as TokenB"]
    /\ outcome' = [txs |-> << >>, verdict |-> "running"]
    /\ UNCHANGED qvars
    /\ UNCHANGED rvars
    /\ UNCHANGED pvars
    /\ UNCHANGED gen

\* runTest, line 677: tokenTarget is the pool's token B; a failed assertion
\* ends the case
CheckSupportedAsTokenB ==
    /\ tcase.running
    /\ tcase.suite = "Supported Tokens"
    /\ tcase.step = "as TokenB"
    /\ LET r == checkSupported(chain, tcase.supported, "config", 1, 2, 64,
                               tcase.anchorPatch)
       IN  /\ chain' = r.chain
           /\ outcome' = [txs |-> Append(outcome.txs, r.err),
                          verdict |-> IF r.ok THEN "running" ELSE "failed"]
           /\ tcase' = [tcase EXCEPT !.step = IF r.ok THEN "as TokenA" ELSE "done"]
    /\ UNCHANGED qvars
    /\ UNCHANGED rvars
    /\ UNCHANGED pvars
    /\ UNCHANGED gen

\* runTest, line 678: tokenTarget is the pool's token A
CheckSupportedAsTokenA ==
    /\ tcase.running
    /\ tcase.suite = "Supported Tokens"
    /\ tcase.step = "as TokenA"
    /\ LET r == checkSupported(chain, tcase.supported, "config", 2, 3, 64,
                               tcase.anchorPatch)
       IN  /\ chain' = r.chain
           /\ outcome' = [txs |-> Append(outcome.txs, r.err),
                          verdict |-> IF r.ok THEN "passed" ELSE "failed"]
           /\ tcase' = [tcase EXCEPT !.step = "done"]
    /\ UNCHANGED qvars
    /\ UNCHANGED rvars
    /\ UNCHANGED pvars
    /\ UNCHANGED gen

\* a case of the suite is about to run on an empty chain
IInit ==
    /\ tcase \in ParityCases \cup SupportedTokenCases
    /\ chain = [mints |-> << >>, configs |-> {}, tokenBadges |-> {}, whirlpools |-> {}]
    /\ outcome = [txs |-> << >>, verdict |-> "running"]
    /\ GenerateIdle
    /\ RouterIdle
    /\ QuoteIdle
    /\ PairIdle

INext == RunParityCase \/ RunTestSetup \/ CheckSupportedAsTokenB \/ CheckSupportedAsTokenA

SpecInitPool == IInit /\ [][INext]_vars

(***************************************************************************)
(* Claims about initialize_pool_v2 (checked under SpecInitPool)             *)
(***************************************************************************)
ParityDone == tcase.running /\ tcase.suite = "v1 parity" /\ tcase.step = "done"

\* C21: initialize_pool_v2 fails with SqrtPriceOutOfBounds and creates no pool
\* when initSqrtPrice is MAX_SQRT_PRICE + 1 or MIN_SQRT_PRICE - 1 (the cases
\* "fails when sqrt-price exceeds max / subceeds min" see that error), and
\* succeeds for every sqrt-price of [MIN_SQRT_PRICE, MAX_SQRT_PRICE]; the pool
\* it creates has liquidity 0 and tickCurrentIndex equal to
\* sqrtPriceX64ToTickIndex(initSqrtPrice)
C21_InitSqrtPriceBounds ==
    ParityDone =>
        /\ tcase.initSqrtPrice \in {MAX_SQRT_PRICE + 1, MIN_SQRT_PRICE - 1} =>
               /\ outcome.txs = <<SqrtPriceOutOfBounds>>
               /\ chain.whirlpools = {}
        /\ tcase.name \in {"fails when sqrt-price exceeds max",
                           "fails when sqrt-price subceeds min"} =>
               /\ outcome.txs = <<SqrtPriceOutOfBounds>>
               /\ chain.whirlpools = {}
        /\ tcase.initSqrtPrice \in MIN_SQRT_PRICE..MAX_SQRT_PRICE =>
               /\ outcome.txs = <<"none">>
               /\ Cardinality(chain.whirlpools) = 1
               /\ \A whirlpool \in chain.whirlpools :
                     /\ whirlpool.sqrtPrice = tcase.initSqrtPrice
                     /\ whirlpool.liquidity = 0
                     /\ whirlpool.tickCurrentIndex =
                            sqrtPriceX64ToTickIndex(tcase.initSqrtPrice)

\* the case "fails when sqrt-price exceeds max" of two Token-2022 mints has
\* been rejected at MAX_SQRT_PRICE + 1
C21_Witness ==
    /\ ParityDone
    /\ tcase.initSqrtPrice = MAX_SQRT_PRICE + 1
    /\ tcase.tokenTraits.tokenTraitA.isToken2022
    /\ tcase.tokenTraits.tokenTraitB.isToken2022
    /\ outcome.txs = <<SqrtPriceOutOfBounds>>
    /\ chain.whirlpools = {}

\* the mint under test and its TokenBadge
TargetMint == tcase.tokenTrait

TargetHasBadge == getTokenBadge("config", 2) \in chain.tokenBadges

\* the Token-2022 mints that need a TokenBadge
BadgeGated(mint) ==
    /\ mint.isToken2022
    /\ \/ mint.extensions \in {{"FreezeAuthority"}, {"PermanentDelegate"},
                              {"TransferHook"}, {"MintCloseAuthority"}}
       \/ /\ mint.extensions = {"DefaultAccountState"}
          /\ mint.defaultAccountInitialState = "Initialized"

\* the Token-2022 mints that no TokenBadge makes acceptable
NeverSupported(mint) ==
    /\ mint.isToken2022
    /\ \/ /\ "DefaultAccountState" \in mint.extensions
          /\ mint.defaultAccountInitialState = "Frozen"
       \/ mint.extensions \in {{"InterestBearingConfig"}, {"NonTransferable"}}

\* the mints that need no TokenBadge
FreelySupported(mint) ==
    \/ ~mint.isToken2022 /\ mint.extensions \subseteq {"FreezeAuthority"}
    \/ /\ mint.isToken2022
       /\ mint.extensions \in {{"TransferFeeConfig"}, {"TokenMetadata", "MetadataPointer"},
                               {"ConfidentialTransferMint"}}

\* the i-th initialisation of the case created its pool
Accepted(i) ==
    /\ outcome.txs[i] = "none"
    /\ \E w \in chain.whirlpools :
          IF i = 1 THEN w.tokenMintA = 1 /\ w.tokenMintB = 2
          ELSE w.tokenMintA = 2 /\ w.tokenMintB = 3

====
